---- MODULE Spec2Model ----
(***************************************************************************)
(* mysql-replicator: the schema replication engine of                      *)
(* src/src/core/replicator.py (Replicator), the diff engine and planner of *)
(* src/structure_analyzer.py (StructureAnalyzer) and the database access   *)
(* layer of src/src/managers/database_manager.py (DatabaseManager).        *)
(*                                                                         *)
(* Five specifications:                                                    *)
(*   SpecSched     the dependency scheduler _sort_tables_by_dependency,    *)
(*                 one step per iteration of its while loop, over every    *)
(*                 bounded input list and foreign-key graph;               *)
(*   Spec          one call of replicate_structure or full_replication     *)
(*                 against a source and a target database;                 *)
(*   SpecTable     the same call on one table, over every column order,    *)
(*                 column subset and index set of the target;              *)
(*   SpecAnalyzer  analyze_table_differences in both directions and        *)
(*                 get_replication_plan over pairs of schemas;             *)
(*   SpecConn      the connections a DatabaseManager opens and closes in   *)
(*                 get_connection, one step per block of the generator.    *)
(***************************************************************************)
EXTENDS Integers, Sequences, FiniteSets, TLC

\* ---------------------------------------------------------------- bounds
MaxTables == 3
MaxFks == 3
MaxInput == 3
MaxFaults == 1

\* line 430
batch_size == 1000

Tables == 1..MaxTables

\* ------------------------------------------------------- generic helpers
Range(s) == {s[i] : i \in 1..Len(s)}

RECURSIVE Orders(_)
\* every order in which a Python set / list comprehension over a set may be iterated
Orders(S) ==
    IF S = {} THEN {<<>>}
    ELSE UNION {{<<x>> \o o : o \in Orders(S \ {x})} : x \in S}

\* the lists of at most n distinct elements of S (table lists come from SHOW TABLES
\* and from the plan, which has one step per listed table)
ListsUpTo(S, n) == UNION {Orders(T) : T \in {U \in SUBSET S : Cardinality(U) <= n}}

VARIABLES
    src,            \* source database: table -> schema
    sched_tables,   \* _sort_tables_by_dependency: the argument `tables`
    dependencies,   \* _sort_tables_by_dependency: dict table -> referenced tables in scope
    sorted_tables,  \* _sort_tables_by_dependency: the list being built
    remaining,      \* _sort_tables_by_dependency: the set still to place
    sched_pc,       \* "start" | "loop" | "done"
    sched_iters,    \* iterations of the while loop so far
    forced,         \* tables placed by the forced pick of line 513
    tgt,            \* target database: table -> schema
    tgt0,           \* the target database when full_replication was called
    all_tables,     \* full_replication: all_tables
    maintain_tables,\* full_replication: maintain_tables
    pc,             \* position of the run
    plan,           \* replicate_structure: plan
    tables_to_create, \* replicate_structure: tables_to_create, sorted
    tables_to_alter,  \* replicate_structure: tables_to_alter
    cursor,         \* index of the next element of the loop the run is in
    log,            \* every statement sent to the target so far, with its outcome
    calls,          \* every executor action started so far: [phase, table]
    messages,       \* replicate_data: what it logged about each table it copied
    tests,          \* full_replication: outcome of each test_connection, or "untested"
    backup,         \* create_backup of the target: "none" | "created" | "failed"
    faults,         \* failures with a cause of their own (lost connection, timeout, ...)
    struct_result,  \* what replicate_structure returned: "none" | "success" | "failure"
    result,         \* what full_replication returned: "none" | "success" | "failure"
    analysis,       \* StructureAnalyzer: (table, direction) -> analyze_table_differences
    connection,     \* DatabaseManager.connection of each manager: 0 (None) or the number
                    \* of the connection object in conns
    conns,          \* every connection object each manager made: "open" | "closed" | "lost"
    operation,      \* the DatabaseManager operation in progress and where it is
    ops             \* operations called so far

sched_vars == <<src, sched_tables, dependencies, sorted_tables, remaining,
                sched_pc, sched_iters, forced>>

\* the scheduler's own variables, without the source database
sched_own == <<sched_tables, dependencies, sorted_tables, remaining,
               sched_pc, sched_iters, forced>>

run_vars == <<tgt, tgt0, all_tables, maintain_tables, pc, plan, tables_to_create,
              tables_to_alter, cursor, log, calls, messages, tests, backup, faults,
              struct_result, result>>

analyzer_vars == <<analysis>>

conn_vars == <<connection, conns, operation, ops>>

vars == <<sched_vars, run_vars, analyzer_vars, conn_vars>>

\* ------------------------------------------------------------- schemas
NoDefault == "<None>"

Column(f, t, n, d) == [Field |-> f, Type |-> t, Null |-> n, Default |-> d]

ForeignKey(c, rt, rc, name) ==
    [COLUMN_NAME |-> c, REFERENCED_TABLE_NAME |-> rt,
     REFERENCED_COLUMN_NAME |-> rc, CONSTRAINT_NAME |-> name]

IndexRow(k, nu, seq, c) ==
    [Key_name |-> k, Non_unique |-> nu, Seq_in_index |-> seq, Column_name |-> c]

NoTable == [exists |-> FALSE, cols |-> <<>>, fks |-> {}, idx |-> <<>>, rows |-> 0]

\* the columns and indexes every source table of the model has
BaseCols ==
    << Column("id", "int", "NO", NoDefault),
       Column("ref_id", "int", "YES", NoDefault),
       Column("a", "varchar", "YES", NoDefault),
       Column("b", "int", "NO", "0") >>

BaseIdx ==
    << IndexRow("PRIMARY", 0, 1, "id"),
       IndexRow("idx_a", 1, 1, "a"),
       IndexRow("uq_ab", 0, 1, "a"),
       IndexRow("uq_ab", 0, 2, "b") >>

\* the foreign key of table t on table r, as SHOW CREATE TABLE of the source names it
ConstraintName(kind, t, c, r) == [kind |-> kind, table |-> t, column |-> c, ref |-> r]

SrcFk(t, r) == ForeignKey("ref_id", r, "id", ConstraintName("src", t, "ref_id", r))

\* rows of the source tables: table 1 fills two batches and part of a third
SourceRows(t) == IF t = 1 THEN 2 * batch_size + 500 ELSE 0

\* a source database of the tables T whose foreign-key graph is the edge set E
SourceDb(T, E) ==
    [t \in T |->
        [exists |-> TRUE, cols |-> BaseCols,
         fks |-> {SrcFk(e[1], e[2]) : e \in {x \in E : x[1] = t}},
         idx |-> BaseIdx, rows |-> SourceRows(t)]]

Graphs(T) == {E \in SUBSET (T \X T) : Cardinality(E) <= MaxFks}

\* ------------------------------------------------ DatabaseManager reads
\* get_table_foreign_keys: the rows of KEY_COLUMN_USAGE, none for a table that is absent
get_table_foreign_keys(db, t) == IF db[t].exists THEN db[t].fks ELSE {}

\* table_exists: COUNT(*) > 0 in information_schema.tables
table_exists(db, t) == db[t].exists

\* get_table_structure: the DESCRIBE rows in ordinal order, [] for a table that is absent
get_table_structure(db, t) == IF db[t].exists THEN db[t].cols ELSE <<>>

\* get_table_indexes: the SHOW INDEX rows, [] for a table that is absent
get_table_indexes(db, t) == IF db[t].exists THEN db[t].idx ELSE <<>>

\* get_table_count: SELECT COUNT(*), 0 for a table that is absent
get_table_count(db, t) == IF db[t].exists THEN db[t].rows ELSE 0

\* get_create_table_statement: SHOW CREATE TABLE, the whole schema of the table
\* ("" for a table that is absent, here a statement that defines nothing)
get_create_table_statement(db, t) ==
    [present |-> db[t].exists, cols |-> get_table_structure(db, t),
     fks |-> get_table_foreign_keys(db, t), idx |-> get_table_indexes(db, t)]

\* ------------------------------------------------------ SQL statements
NoColumn == Column("", "", "", NoDefault)
NoName == ConstraintName("", 0, "", 0)
NoCreate == [present |-> FALSE, cols |-> <<>>, fks |-> {}, idx |-> <<>>]

\* FOREIGN_KEY_CHECKS in a session in which the statements `before` have run: the last
\* value set, 1 on a new connection
ForeignKeyChecks(before) ==
    LET IsSet(o) == o \in {"SET FOREIGN_KEY_CHECKS = 0", "SET FOREIGN_KEY_CHECKS = 1"}
        sets == SelectSeq(before, IsSet)
    IN IF sets = <<>> THEN 1
       ELSE IF sets[Len(sets)] = "SET FOREIGN_KEY_CHECKS = 0" THEN 0 ELSE 1

\* a statement; fk_checks: FOREIGN_KEY_CHECKS of the session it runs in (every
\* get_connection makes a new connection)
Stmt(op, t) ==
    [op |-> op, table |-> t, column |-> "", definition |-> NoColumn, position |-> "",
     after |-> "", ref_table |-> 0, ref_column |-> "", constraint |-> NoName,
     index |-> "", create |-> NoCreate, columns |-> <<>>, count |-> 0,
     fk_checks |-> ForeignKeyChecks(<<>>)]

Fields(cols) == {cols[i].Field : i \in 1..Len(cols)}

IndexOfField(cols, f) == CHOOSE i \in 1..Len(cols) : cols[i].Field = f

InsertAt(s, i, x) == SubSeq(s, 1, i) \o <<x>> \o SubSeq(s, i + 1, Len(s))

FkTriple(fk) == <<fk.COLUMN_NAME, fk.REFERENCED_TABLE_NAME, fk.REFERENCED_COLUMN_NAME>>

IndexNames(rows) == {rows[i].Key_name : i \in 1..Len(rows)}

\* -------------------------------------------- the database engine (MySQL)
\* Whether the engine accepts the statement in database db, and the error it raises
\* otherwise ("fk": a foreign key constraint error).
Rejects(db, q) ==
    LET t == q.table
        cols == db[t].cols
    IN CASE q.op = "CREATE TABLE" ->
              IF ~ q.create.present \/ db[t].exists THEN "error"
              ELSE IF \E fk \in q.create.fks :
                        /\ fk.REFERENCED_TABLE_NAME # t
                        /\ ~ db[fk.REFERENCED_TABLE_NAME].exists
                   THEN "fk" ELSE ""
         [] q.op \in {"SET FOREIGN_KEY_CHECKS = 0", "SET FOREIGN_KEY_CHECKS = 1"} -> ""
         [] ~ db[t].exists -> "error"
         [] q.op = "ADD COLUMN" ->
              IF q.definition.Field \in Fields(cols) THEN "error"
              ELSE IF q.position = "AFTER" /\ q.after \notin Fields(cols) THEN "error"
              ELSE ""
         [] q.op = "DROP COLUMN" ->
              IF q.column \in Fields(cols) /\ Len(cols) > 1 THEN "" ELSE "error"
         [] q.op = "MODIFY COLUMN" ->
              IF q.column \in Fields(cols) THEN "" ELSE "error"
         [] q.op = "ADD CONSTRAINT" ->
              IF ~ db[q.ref_table].exists THEN "fk"
              ELSE IF q.column \notin Fields(cols) THEN "error"
              ELSE IF \E fk \in db[t].fks : fk.CONSTRAINT_NAME = q.constraint THEN "error"
              ELSE ""
         [] q.op = "DROP FOREIGN KEY" ->
              IF \E fk \in db[t].fks : fk.CONSTRAINT_NAME = q.constraint THEN "" ELSE "error"
         [] q.op \in {"CREATE INDEX", "CREATE UNIQUE INDEX"} ->
              IF q.index \in IndexNames(db[t].idx) \/ q.column \notin Fields(cols)
              THEN "error" ELSE ""
         [] q.op = "DROP INDEX" ->
              IF q.index \in IndexNames(db[t].idx) THEN "" ELSE "error"
         [] q.op \in {"TRUNCATE", "DELETE"} -> ""
         [] q.op = "INSERT" ->
              IF Range(q.columns) \subseteq Fields(cols) THEN "" ELSE "error"
         [] OTHER -> "error"

\* The database after the engine has run an accepted statement.
Effect(db, q) ==
    LET t == q.table
        old == db[t]
        cols == old.cols
    IN CASE q.op = "CREATE TABLE" ->
              [db EXCEPT ![t] = [exists |-> TRUE, cols |-> q.create.cols,
                                 fks |-> q.create.fks, idx |-> q.create.idx, rows |-> 0]]
         [] q.op = "ADD COLUMN" ->
              [db EXCEPT ![t].cols =
                  CASE q.position = "FIRST" -> <<q.definition>> \o cols
                    [] q.position = "AFTER" ->
                         InsertAt(cols, IndexOfField(cols, q.after), q.definition)
                    [] OTHER -> Append(cols, q.definition)]
         [] q.op = "DROP COLUMN" ->
              LET Keep(c) == c.Field # q.column
                  KeepRow(r) == r.Column_name # q.column
              IN [db EXCEPT ![t].cols = SelectSeq(cols, Keep),
                            ![t].idx = SelectSeq(old.idx, KeepRow)]
         [] q.op = "MODIFY COLUMN" ->
              \* a MODIFY restates the whole column: attributes it leaves out are reset
              [db EXCEPT ![t].cols[IndexOfField(cols, q.column)] =
                  Column(q.column, q.definition.Type, "YES", NoDefault)]
         [] q.op = "ADD CONSTRAINT" ->
              [db EXCEPT ![t].fks = old.fks \cup
                  {ForeignKey(q.column, q.ref_table, q.ref_column, q.constraint)}]
         [] q.op = "DROP FOREIGN KEY" ->
              [db EXCEPT ![t].fks = {fk \in old.fks : fk.CONSTRAINT_NAME # q.constraint}]
         [] q.op = "CREATE INDEX" ->
              [db EXCEPT ![t].idx = Append(old.idx, IndexRow(q.index, 1, 1, q.column))]
         [] q.op = "CREATE UNIQUE INDEX" ->
              [db EXCEPT ![t].idx = Append(old.idx, IndexRow(q.index, 0, 1, q.column))]
         [] q.op = "DROP INDEX" ->
              LET KeepRow(r) == r.Key_name # q.index
              IN [db EXCEPT ![t].idx = SelectSeq(old.idx, KeepRow)]
         [] q.op \in {"TRUNCATE", "DELETE"} -> [db EXCEPT ![t].rows = 0]
         [] q.op = "INSERT" -> [db EXCEPT ![t].rows = old.rows + q.count]
         [] OTHER -> db

\* One cursor.execute: `fault` makes the statement fail for a reason of its own
\* (lost connection, lock timeout, ...); otherwise the engine decides.
Execute(db, q, fault) ==
    LET err == IF fault THEN "error" ELSE Rejects(db, q)
    IN [ok |-> err = "", err |-> err, db |-> IF err = "" THEN Effect(db, q) ELSE db,
        log |-> <<[stmt |-> q, ok |-> err = "", err |-> err]>>]

\* ------------------------------------------------ DatabaseManager writes
\* execute_query: one statement on its own connection. mysql.connector.Error is
\* caught at line 119 and turned into False, so nothing is ever raised to the caller.
execute_query(db, q, fault) ==
    LET r == Execute(db, q, fault)
    IN [ok |-> r.ok, raised |-> FALSE, err |-> r.err, db |-> r.db, log |-> r.log]

RECURSIVE RunQueries(_, _, _, _)
\* lines 128-129: the statements in order up to the first that fails. Every statement
\* is DDL, which the engine commits implicitly, so what ran before a failure stays.
RunQueries(db, queries, i, failAt) ==
    IF i > Len(queries) THEN [ok |-> TRUE, db |-> db, log |-> <<>>, faulted |-> FALSE]
    ELSE LET r == Execute(db, queries[i], i = failAt)
         IN IF ~ r.ok THEN [ok |-> FALSE, db |-> db, log |-> r.log, faulted |-> i = failAt]
            ELSE LET rest == RunQueries(r.db, queries, i + 1, failAt)
                 IN [ok |-> rest.ok, db |-> rest.db, log |-> r.log \o rest.log,
                     faulted |-> rest.faulted]

\* execute_queries: False on the first error, never raises
execute_queries(db, queries, failAt) == RunQueries(db, queries, 1, failAt)

\* ------------------------------------------------------------ diff engine
RECURSIVE CommonColumnDiffs_FirstOnly(_, _, _)
\* mutant: the three comparisons are an if / elif chain, one record per column at most
CommonColumnDiffs_FirstOnly(source, target, i) ==
    IF i > Len(source) THEN <<>>
    ELSE LET source_col == source[i]
             col_name == source_col.Field
         IN IF col_name \notin Fields(target)
            THEN CommonColumnDiffs_FirstOnly(source, target, i + 1)
            ELSE LET target_col == target[IndexOfField(target, col_name)]
                 IN (IF source_col.Type # target_col.Type
                     THEN <<[type |-> "type_difference", column |-> col_name,
                             source_type |-> source_col.Type,
                             target_type |-> target_col.Type]>>
                     ELSE IF source_col.Null # target_col.Null
                     THEN <<[type |-> "null_difference", column |-> col_name,
                             source_null |-> source_col.Null,
                             target_null |-> target_col.Null]>>
                     ELSE IF source_col.Default # target_col.Default
                     THEN <<[type |-> "default_difference", column |-> col_name,
                             source_default |-> source_col.Default,
                             target_default |-> target_col.Default]>>
                     ELSE <<>>)
                    \o CommonColumnDiffs_FirstOnly(source, target, i + 1)

RECURSIVE CommonColumnDiffs(_, _, _)
\* lines 95-122: type, nullability and default of the columns both sides have
CommonColumnDiffs(source, target, i) ==
    IF i > Len(source) THEN <<>>
    ELSE LET source_col == source[i]
             col_name == source_col.Field
         IN IF col_name \notin Fields(target)
            THEN CommonColumnDiffs(source, target, i + 1)
            ELSE LET target_col == target[IndexOfField(target, col_name)]
                 IN (IF source_col.Type # target_col.Type
                     THEN <<[type |-> "type_difference", column |-> col_name,
                             source_type |-> source_col.Type,
                             target_type |-> target_col.Type]>>
                     ELSE <<>>)
                    \o (IF source_col.Null # target_col.Null
                        THEN <<[type |-> "null_difference", column |-> col_name,
                                source_null |-> source_col.Null,
                                target_null |-> target_col.Null]>>
                        ELSE <<>>)
                    \o (IF source_col.Default # target_col.Default
                        THEN <<[type |-> "default_difference", column |-> col_name,
                                source_default |-> source_col.Default,
                                target_default |-> target_col.Default]>>
                        ELSE <<>>)
                    \o CommonColumnDiffs(source, target, i + 1)

FieldOrder(cols) == [i \in 1..Len(cols) |-> cols[i].Field]

\* _compare_structures, lines 66-135
_compare_structures(source, target) ==
    LET OnlySource(c) == c.Field \notin Fields(target)
        OnlyTarget(c) == c.Field \notin Fields(source)
        missing == SelectSeq(source, OnlySource)
        extra == SelectSeq(target, OnlyTarget)
    IN [i \in 1..Len(missing) |->
            [type |-> "missing_column", column |-> missing[i].Field,
             source_definition |-> missing[i]]]
       \o [i \in 1..Len(extra) |->
            [type |-> "extra_column", column |-> extra[i].Field,
             target_definition |-> extra[i]]]
       \o CommonColumnDiffs(source, target, 1)
       \o (IF FieldOrder(source) # FieldOrder(target)
           THEN <<[type |-> "column_order_difference",
                   source_order |-> FieldOrder(source),
                   target_order |-> FieldOrder(target)]>>
           ELSE <<>>)

FkDiff(type, triple) ==
    [type |-> type, column |-> triple[1], referenced_table |-> triple[2],
     referenced_column |-> triple[3]]

\* mutant: the foreign keys the target has and the source lacks are not reported
_compare_foreign_keys_MissingOnly(source, target) ==
    {[type |-> "missing_foreign_key", column |-> fk.COLUMN_NAME,
      referenced_table |-> fk.REFERENCED_TABLE_NAME,
      referenced_column |-> fk.REFERENCED_COLUMN_NAME] :
        fk \in {k \in source : \A o \in target :
                    <<k.COLUMN_NAME, k.REFERENCED_TABLE_NAME, k.REFERENCED_COLUMN_NAME>>
                    # <<o.COLUMN_NAME, o.REFERENCED_TABLE_NAME, o.REFERENCED_COLUMN_NAME>>}}

\* _compare_foreign_keys, lines 137-169. The list is built by iterating two set
\* differences, so the order within each is arbitrary: it is kept as a set and ordered
\* when read (ForeignKeyDiffOrders).
_compare_foreign_keys(source, target) ==
    LET source_fks == {FkTriple(fk) : fk \in source}
        target_fks == {FkTriple(fk) : fk \in target}
    IN {FkDiff("missing_foreign_key", fk) : fk \in source_fks \ target_fks}
       \cup {FkDiff("extra_foreign_key", fk) : fk \in target_fks \ source_fks}

RECURSIVE GroupNames(_, _)
\* lines 176-186: the keys of the dict of index rows grouped by Key_name, in insertion order
GroupNames(rows, seen) ==
    IF rows = <<>> THEN <<>>
    ELSE IF Head(rows).Key_name \in seen THEN GroupNames(Tail(rows), seen)
    ELSE <<Head(rows).Key_name>> \o GroupNames(Tail(rows), seen \cup {Head(rows).Key_name})

IndexGroup(rows, name) == LET Named(r) == r.Key_name = name IN SelectSeq(rows, Named)

\* mutant: every index of the source is reported missing, whatever the target has
_compare_indexes_AllMissing(source, target) ==
    [i \in 1..Len(source) |->
        [type |-> "missing_index", index_name |-> source[i].Key_name,
         index_definition |-> <<source[i]>>]]

\* _compare_indexes, lines 171-205
_compare_indexes(source, target) ==
    LET source_indexes == GroupNames(source, {})
        target_indexes == GroupNames(target, {})
        OnlySource(n) == n \notin Range(target_indexes)
        OnlyTarget(n) == n \notin Range(source_indexes)
        missing == SelectSeq(source_indexes, OnlySource)
        extra == SelectSeq(target_indexes, OnlyTarget)
    IN [i \in 1..Len(missing) |->
            [type |-> "missing_index", index_name |-> missing[i],
             index_definition |-> IndexGroup(source, missing[i])]]
       \o [i \in 1..Len(extra) |->
            [type |-> "extra_index", index_name |-> extra[i],
             index_definition |-> IndexGroup(target, extra[i])]]

\* analyze_table_differences, lines 11-64
analyze_table_differences(sdb, tdb, table_name) ==
    LET in_source == table_exists(sdb, table_name)
        in_target == table_exists(tdb, table_name)
        both == in_source /\ in_target
    IN [table_name |-> table_name,
        exists_in_source |-> in_source,
        exists_in_target |-> in_target,
        structure_differences |->
            IF both THEN _compare_structures(get_table_structure(sdb, table_name),
                                             get_table_structure(tdb, table_name))
            ELSE <<>>,
        foreign_key_differences |->
            IF both THEN _compare_foreign_keys(get_table_foreign_keys(sdb, table_name),
                                               get_table_foreign_keys(tdb, table_name))
            ELSE {},
        index_differences |->
            IF both THEN _compare_indexes(get_table_indexes(sdb, table_name),
                                          get_table_indexes(tdb, table_name))
            ELSE <<>>,
        data_count_source |-> IF both THEN get_table_count(sdb, table_name) ELSE 0,
        data_count_target |-> IF both THEN get_table_count(tdb, table_name) ELSE 0]

\* ---------------------------------------------------------------- planner
\* mutant: a table the target lacks is treated like one it has
StepActions_NoCreate(a, is_maintain_table) ==
    (IF a.structure_differences # <<>>
     THEN <<[type |-> "alter_table", differences |-> a.structure_differences]>>
     ELSE <<>>)
    \o (IF is_maintain_table
        THEN <<[type |-> "replicate_data", source_count |-> a.data_count_source,
                target_count |-> a.data_count_target]>>
        ELSE <<>>)

\* mutant: the data of a maintained table is planned only when the target has the table
StepActions_DataIfPresent(a, is_maintain_table) ==
    IF ~ a.exists_in_target
    THEN <<[type |-> "create_table"]>>
    ELSE (IF a.structure_differences # <<>>
          THEN <<[type |-> "alter_table", differences |-> a.structure_differences]>>
          ELSE <<>>)
         \o (IF a.foreign_key_differences # {}
             THEN <<[type |-> "update_foreign_keys",
                     differences |-> a.foreign_key_differences]>>
             ELSE <<>>)
         \o (IF a.index_differences # <<>>
             THEN <<[type |-> "update_indexes", differences |-> a.index_differences]>>
             ELSE <<>>)
         \o (IF is_maintain_table
             THEN <<[type |-> "replicate_data", source_count |-> a.data_count_source,
                     target_count |-> a.data_count_target]>>
             ELSE <<>>)

\* lines 256-300: the actions of the step of one table
StepActions(a, is_maintain_table) ==
    (IF ~ a.exists_in_target
     THEN <<[type |-> "create_table"]>>
     ELSE (IF a.structure_differences # <<>>
           THEN <<[type |-> "alter_table", differences |-> a.structure_differences]>>
           ELSE <<>>)
          \o (IF a.foreign_key_differences # {}
              THEN <<[type |-> "update_foreign_keys",
                      differences |-> a.foreign_key_differences]>>
              ELSE <<>>)
          \o (IF a.index_differences # <<>>
              THEN <<[type |-> "update_indexes", differences |-> a.index_differences]>>
              ELSE <<>>))
    \o (IF is_maintain_table
        THEN <<[type |-> "replicate_data", source_count |-> a.data_count_source,
                target_count |-> a.data_count_target]>>
        ELSE <<>>)

RECURSIVE PlanFrom(_, _, _, _, _)
PlanFrom(sdb, tdb, table_names, maintain, i) ==
    IF i > Len(table_names) THEN <<>>
    ELSE LET table_name == table_names[i]
             a == analyze_table_differences(sdb, tdb, table_name)
             actions == StepActions(a, table_name \in Range(maintain))
             rest == PlanFrom(sdb, tdb, table_names, maintain, i + 1)
         IN IF ~ a.exists_in_source \/ actions = <<>> THEN rest
            ELSE <<[table |-> table_name, actions |-> actions,
                    is_maintain_table |-> table_name \in Range(maintain)]>> \o rest

\* get_replication_plan, lines 243-305
get_replication_plan(sdb, tdb, table_names, maintain) ==
    PlanFrom(sdb, tdb, table_names, maintain, 1)

\* ------------------------------------------- _sort_tables_by_dependency
\* lines 497-501: dependencies[table] = referenced tables that are in `tables`
BuildDependencies(db, tables) ==
    [t \in Range(tables) |->
        {fk.REFERENCED_TABLE_NAME : fk \in get_table_foreign_keys(db, t)}
            \cap Range(tables)]

\* mutant: the comprehension ranges over every table instead of `remaining`
NoDeps_OverAllTables(deps, rem) == {t \in DOMAIN deps : ~ \E d \in deps[t] : d \in rem}

\* mutant: the pending-dependency test is dropped
NoDeps_Unchecked(deps, rem) == rem

\* line 509: tables of `remaining` none of whose dependencies is still in `remaining`
NoDeps(deps, rem) == {t \in rem : ~ \E d \in deps[t] : d \in rem}

\* mutant: the stall is not broken, nothing is picked
ForcedPick_Nothing(rem) == {{}}

\* line 513: list(remaining)[0], the first element in the set's iteration order
ForcedPick(rem) == {{t} : t \in rem}

\* mutant: the test of line 511 is inverted away, one table is picked every time
Batches_AlwaysForced(deps, rem) == ForcedPick(rem)

\* lines 509-513: the batch appended by one iteration (every value it may take)
Batches(deps, rem) ==
    IF NoDeps(deps, rem) # {} THEN {NoDeps(deps, rem)} ELSE ForcedPick(rem)

RECURSIVE SortRuns(_, _, _)
\* every list _sort_tables_by_dependency may return from (sorted, remaining)
SortRuns(deps, sorted, rem) ==
    IF rem = {} THEN {sorted}
    ELSE UNION {UNION {SortRuns(deps, sorted \o o, rem \ b) : o \in Orders(b)}
                  : b \in Batches(deps, rem)}

_sort_tables_by_dependency(db, tables) ==
    SortRuns(BuildDependencies(db, tables), <<>>, Range(tables))

\* ------------------------------------------------------- Replicator steps
CreateTableStmt(t, statement) == [Stmt("CREATE TABLE", t) EXCEPT !.create = statement]

\* lines 196-214: every line holding FOREIGN KEY is dropped from the statement
StripForeignKeys(statement) == [statement EXCEPT !.fks = {}]

\* _create_table_without_foreign_keys, lines 192-226
_create_table_without_foreign_keys(tdb, table_name, original_statement, fault) ==
    LET r == execute_query(tdb, CreateTableStmt(table_name,
                                    StripForeignKeys(original_statement)), fault)
    IN [ok |-> r.ok /\ ~ r.raised, db |-> r.db, log |-> r.log]

\* _create_table, lines 163-190. The retry of line 182 runs only when execute_query
\* raises an exception whose text holds "Foreign key constraint".
_create_table(sdb, tdb, table_name, fault) ==
    LET create_statement == get_create_table_statement(sdb, table_name)
        r == execute_query(tdb, CreateTableStmt(table_name, create_statement), fault)
    IN IF ~ create_statement.present THEN [ok |-> FALSE, db |-> tdb, log |-> <<>>]
       ELSE IF r.raised /\ r.err = "fk"
       THEN LET w == _create_table_without_foreign_keys(tdb, table_name,
                                                        create_statement, FALSE)
            IN [ok |-> w.ok, db |-> w.db, log |-> r.log \o w.log]
       ELSE [ok |-> r.ok /\ ~ r.raised, db |-> r.db, log |-> r.log]

RECURSIVE PreviousInTarget_Earliest(_, _, _)
\* mutant: the scan runs forward from the first source column
PreviousInTarget_Earliest(source_columns, target_columns, i) ==
    IF i < 1 THEN ""
    ELSE LET before == PreviousInTarget_Earliest(source_columns, target_columns, i - 1)
         IN IF before # "" THEN before
            ELSE IF source_columns[i] \in Range(target_columns) THEN source_columns[i]
            ELSE ""

RECURSIVE PreviousInTarget(_, _, _)
\* lines 547-550: the nearest column before index i of the source that the target has
PreviousInTarget(source_columns, target_columns, i) ==
    IF i < 1 THEN ""
    ELSE IF source_columns[i] \in Range(target_columns) THEN source_columns[i]
    ELSE PreviousInTarget(source_columns, target_columns, i - 1)

\* _get_column_position, lines 525-557
_get_column_position(sdb, tdb, table_name, column_name) ==
    LET source_columns == FieldOrder(get_table_structure(sdb, table_name))
        target_columns == FieldOrder(get_table_structure(tdb, table_name))
        column_index == CHOOSE i \in 1..Len(source_columns) : source_columns[i] = column_name
        previous_column == PreviousInTarget(source_columns, target_columns, column_index - 1)
    IN IF column_name \notin Range(source_columns) THEN [position |-> "", after |-> ""]
       ELSE IF column_index = 1 THEN [position |-> "FIRST", after |-> ""]
       ELSE IF previous_column # "" THEN [position |-> "AFTER", after |-> previous_column]
       ELSE [position |-> "FIRST", after |-> ""]

\* mutant: a column order difference moves the first source column to the front
AlterQuery_Reorders(sdb, tdb, table_name, diff) ==
    CASE diff.type = "missing_column" ->
            LET col_def == diff.source_definition
                pos == _get_column_position(sdb, tdb, table_name, col_def.Field)
            IN <<[Stmt("ADD COLUMN", table_name) EXCEPT
                    !.column = col_def.Field,
                    !.definition = Column(col_def.Field, col_def.Type,
                                          IF col_def.Null = "NO" THEN "NO" ELSE "YES",
                                          col_def.Default),
                    !.position = pos.position,
                    !.after = pos.after]>>
      [] diff.type = "extra_column" ->
            <<[Stmt("DROP COLUMN", table_name) EXCEPT !.column = diff.column]>>
      [] diff.type = "type_difference" ->
            <<[Stmt("MODIFY COLUMN", table_name) EXCEPT
                    !.column = diff.column,
                    !.definition = Column(diff.column, diff.source_type, "", NoDefault)]>>
      [] diff.type = "column_order_difference" ->
            <<[Stmt("MODIFY COLUMN", table_name) EXCEPT
                    !.column = diff.source_order[1],
                    !.definition = Column(diff.source_order[1], "int", "", NoDefault),
                    !.position = "FIRST"]>>
      [] OTHER -> <<>>

\* lines 234-275: the statement, if any, that one structure difference turns into
AlterQuery(sdb, tdb, table_name, diff) ==
    CASE diff.type = "missing_column" ->
            LET col_def == diff.source_definition
                pos == _get_column_position(sdb, tdb, table_name, col_def.Field)
            IN <<[Stmt("ADD COLUMN", table_name) EXCEPT
                    !.column = col_def.Field,
                    !.definition = Column(col_def.Field, col_def.Type,
                                          IF col_def.Null = "NO" THEN "NO" ELSE "YES",
                                          col_def.Default),
                    !.position = pos.position,
                    !.after = pos.after]>>
      [] diff.type = "extra_column" ->
            <<[Stmt("DROP COLUMN", table_name) EXCEPT !.column = diff.column]>>
      [] diff.type = "type_difference" ->
            <<[Stmt("MODIFY COLUMN", table_name) EXCEPT
                    !.column = diff.column,
                    !.definition = Column(diff.column, diff.source_type, "", NoDefault)]>>
      [] OTHER -> <<>>

RECURSIVE AlterQueries(_, _, _, _, _)
AlterQueries(sdb, tdb, table_name, differences, i) ==
    IF i > Len(differences) THEN <<>>
    ELSE AlterQuery(sdb, tdb, table_name, differences[i])
         \o AlterQueries(sdb, tdb, table_name, differences, i + 1)

\* _alter_table, lines 228-289
_alter_table(sdb, tdb, table_name, differences, failAt) ==
    LET alter_queries == AlterQueries(sdb, tdb, table_name, differences, 1)
    IN execute_queries(tdb, alter_queries, failAt)

\* lines 343-365: the statement, if any, of one foreign-key difference
ForeignKeyQuery(tdb, table_name, diff) ==
    IF diff.type = "missing_foreign_key"
    THEN <<[Stmt("ADD CONSTRAINT", table_name) EXCEPT
                !.column = diff.column,
                !.ref_table = diff.referenced_table,
                !.ref_column = diff.referenced_column,
                !.constraint = ConstraintName("fk", table_name, diff.column, 0)]>>
    ELSE LET found == {fk \in get_table_foreign_keys(tdb, table_name) :
                          FkTriple(fk) = <<diff.column, diff.referenced_table,
                                           diff.referenced_column>>}
         IN IF found = {} THEN <<>>
            ELSE <<[Stmt("DROP FOREIGN KEY", table_name) EXCEPT
                        !.constraint = (CHOOSE fk \in found : TRUE).CONSTRAINT_NAME]>>

RECURSIVE ForeignKeyQueries(_, _, _, _)
ForeignKeyQueries(tdb, table_name, differences, i) ==
    IF i > Len(differences) THEN <<>>
    ELSE ForeignKeyQuery(tdb, table_name, differences[i])
         \o ForeignKeyQueries(tdb, table_name, differences, i + 1)

\* _update_foreign_keys, lines 337-376; `differences` in the order the list has
_update_foreign_keys(tdb, table_name, differences, failAt) ==
    execute_queries(tdb, ForeignKeyQueries(tdb, table_name, differences, 1), failAt)

\* mutant: the index named PRIMARY is handled like every other index
IndexQuery_WithPrimary(sdb, table_name, diff) ==
    LET index_name == diff.index_name
        source_indexes == get_table_indexes(sdb, table_name)
        Named(r) == r.Key_name = index_name
        rows == SelectSeq(source_indexes, Named)
    IN IF diff.type = "missing_index"
       THEN IF rows = <<>> THEN <<>>
            ELSE <<[Stmt(IF rows[1].Non_unique = 0 THEN "CREATE UNIQUE INDEX"
                         ELSE "CREATE INDEX", table_name) EXCEPT
                        !.index = index_name,
                        !.column = rows[1].Column_name]>>
       ELSE <<[Stmt("DROP INDEX", table_name) EXCEPT !.index = index_name]>>

\* lines 384-405: the statement, if any, of one index difference
IndexQuery(sdb, table_name, diff) ==
    LET index_name == diff.index_name
        source_indexes == get_table_indexes(sdb, table_name)
        Named(r) == r.Key_name = index_name
        rows == SelectSeq(source_indexes, Named)
    IN IF index_name = "PRIMARY" THEN <<>>
       ELSE IF diff.type = "missing_index"
       THEN IF rows = <<>> THEN <<>>
            ELSE <<[Stmt(IF rows[1].Non_unique = 0 THEN "CREATE UNIQUE INDEX"
                         ELSE "CREATE INDEX", table_name) EXCEPT
                        !.index = index_name,
                        !.column = rows[1].Column_name]>>
       ELSE <<[Stmt("DROP INDEX", table_name) EXCEPT !.index = index_name]>>

RECURSIVE IndexQueries(_, _, _, _)
IndexQueries(sdb, table_name, differences, i) ==
    IF i > Len(differences) THEN <<>>
    ELSE IndexQuery(sdb, table_name, differences[i])
         \o IndexQueries(sdb, table_name, differences, i + 1)

\* _update_indexes, lines 378-416
_update_indexes(sdb, tdb, table_name, differences, failAt) ==
    execute_queries(tdb, IndexQueries(sdb, table_name, differences, 1), failAt)

\* lines 458-468: the foreign keys of the source table that the target table lacks
MissingForeignKeys(sdb, tdb, table_name) ==
    {FkTriple(fk) : fk \in get_table_foreign_keys(sdb, table_name)}
        \ {FkTriple(fk) : fk \in get_table_foreign_keys(tdb, table_name)}

\* mutant: the existence check of line 475 is left out
ReferencedTableExists_Unchecked(tdb, ref_table) == TRUE

\* line 475: only a foreign key whose referenced table exists in the target is added
ReferencedTableExists(tdb, ref_table) == table_exists(tdb, ref_table)

RECURSIVE AddForeignKeys(_, _, _, _, _)
\* lines 473-485 over missing_fks in the order `fks`; failAt: the statement that fails
AddForeignKeys(tdb, table_name, fks, i, failAt) ==
    IF i > Len(fks) THEN [db |-> tdb, log |-> <<>>, faulted |-> FALSE]
    ELSE LET column == fks[i][1]
             ref_table == fks[i][2]
             ref_column == fks[i][3]
             query == [Stmt("ADD CONSTRAINT", table_name) EXCEPT
                          !.column = column, !.ref_table = ref_table,
                          !.ref_column = ref_column,
                          !.constraint = ConstraintName("fk", table_name, column, ref_table)]
         IN IF ReferencedTableExists(tdb, ref_table)
            THEN LET r == execute_query(tdb, query, i = failAt)
                     rest == AddForeignKeys(r.db, table_name, fks, i + 1, failAt)
                 IN [db |-> rest.db, log |-> r.log \o rest.log,
                     faulted |-> rest.faulted \/ i = failAt]
            ELSE AddForeignKeys(tdb, table_name, fks, i + 1, failAt)

\* ------------------------------------------------ scheduler, step by step
SchedIdle ==
    /\ sched_tables = <<>>
    /\ dependencies = <<>>
    /\ sorted_tables = <<>>
    /\ remaining = {}
    /\ sched_pc = "start"
    /\ sched_iters = 0
    /\ forced = {}

RunIdle ==
    /\ tgt = <<>>
    /\ tgt0 = <<>>
    /\ all_tables = <<>>
    /\ maintain_tables = <<>>
    /\ pc = "idle"
    /\ plan = <<>>
    /\ tables_to_create = <<>>
    /\ tables_to_alter = <<>>
    /\ cursor = 1
    /\ log = <<>>
    /\ calls = <<>>
    /\ messages = <<>>
    /\ tests = [source |-> "untested", target |-> "untested"]
    /\ backup = "none"
    /\ faults = 0
    /\ struct_result = "none"
    /\ result = "none"

AnalyzerIdle == analysis = <<>>

Managers == {"source_db", "target_db"}

NoOperation == [mgr |-> "", name |-> "", pc |-> "idle", exc |-> "none", attempt |-> 0]

\* DatabaseManager.__init__, line 11: self.connection = None
ConnIdle ==
    /\ connection = [m \in Managers |-> 0]
    /\ conns = [m \in Managers |-> <<>>]
    /\ operation = NoOperation
    /\ ops = 0

InitSched ==
    /\ src \in {SourceDb(Tables, E) : E \in Graphs(Tables)}
    /\ sched_tables \in ListsUpTo(Tables, MaxInput)
    /\ dependencies = <<>>
    /\ sorted_tables = <<>>
    /\ remaining = {}
    /\ sched_pc = "start"
    /\ sched_iters = 0
    /\ forced = {}
    /\ RunIdle
    /\ AnalyzerIdle
    /\ ConnIdle

\* lines 496-505
SchedStart ==
    /\ sched_pc = "start"
    /\ dependencies' = BuildDependencies(src, sched_tables)
    /\ sorted_tables' = <<>>
    /\ remaining' = Range(sched_tables)
    /\ sched_pc' = "loop"
    /\ UNCHANGED <<src, sched_tables, sched_iters, forced, run_vars, analyzer_vars, conn_vars>>

\* lines 507-517: one iteration of `while remaining`
SchedIter ==
    /\ sched_pc = "loop"
    /\ remaining # {}
    /\ sched_iters <= MaxInput
    /\ \E b \in Batches(dependencies, remaining) : \E o \in Orders(b) :
        /\ sorted_tables' = sorted_tables \o o
        /\ remaining' = remaining \ b
        /\ forced' = IF NoDeps(dependencies, remaining) = {} THEN forced \cup b ELSE forced
    /\ sched_iters' = sched_iters + 1
    /\ UNCHANGED <<src, sched_tables, dependencies, sched_pc, run_vars, analyzer_vars, conn_vars>>

\* line 519
SchedReturn ==
    /\ sched_pc = "loop"
    /\ remaining = {}
    /\ sched_pc' = "done"
    /\ UNCHANGED <<src, sched_tables, dependencies, sorted_tables, remaining,
                   sched_iters, forced, run_vars, analyzer_vars, conn_vars>>

NextSched == SchedStart \/ SchedIter \/ SchedReturn

SpecSched == InitSched /\ [][NextSched]_vars

\* ------------------------------------------------------------ data copier
\* One with block of truncate_table (lines 175-188, 192-198) on a connection of its own:
\* SET FOREIGN_KEY_CHECKS = 0, the clearing statement, SET FOREIGN_KEY_CHECKS = 1,
\* commit. `fault`: 0 nothing fails, 1 the clearing statement fails, 2 what follows it
\* fails. TRUNCATE is DDL and stays once it has run; a DELETE that is not committed is
\* rolled back when the connection closes.
ClearOutcome(tdb, op, r) ==
    [ok |-> r.ok, db |-> IF r.ok \/ op = "TRUNCATE" THEN r.db ELSE tdb, log |-> r.log]

ClearAttempt(tdb, table_name, op, fault) ==
    LET InSession(q, before) ==
            [Stmt(q, table_name) EXCEPT !.fk_checks = ForeignKeyChecks(before)]
    IN ClearOutcome(tdb, op,
            RunQueries(tdb,
                       <<InSession("SET FOREIGN_KEY_CHECKS = 0", <<>>),
                         InSession(op, <<"SET FOREIGN_KEY_CHECKS = 0">>),
                         InSession("SET FOREIGN_KEY_CHECKS = 1",
                                   <<"SET FOREIGN_KEY_CHECKS = 0", op>>)>>,
                       1, IF fault = 0 THEN 0 ELSE fault + 1))

\* mutant: the DELETE runs whether the TRUNCATE failed or not
DeleteFallback_Always(first, second) ==
    [ok |-> first.ok \/ second.ok, db |-> second.db, log |-> first.log \o second.log]

\* lines 190-201: the except branch of truncate_table, which runs `second`, the DELETE
\* block, when `first`, the TRUNCATE block, raised
DeleteFallback(first, second) ==
    IF first.ok THEN first
    ELSE [ok |-> second.ok, db |-> second.db, log |-> first.log \o second.log]

\* the DELETE block on what the TRUNCATE block left
DeleteAfter(first, table_name, delete_fault) ==
    DeleteFallback(first, ClearAttempt(first.db, table_name, "DELETE", delete_fault))

\* truncate_table, lines 172-201: TRUNCATE, and DELETE only when TRUNCATE failed
truncate_table(tdb, table_name, truncate_fault, delete_fault) ==
    DeleteAfter(ClearAttempt(tdb, table_name, "TRUNCATE", truncate_fault),
                table_name, delete_fault)

Min(a, b) == IF a < b THEN a ELSE b

RECURSIVE InsertBatches(_, _, _, _, _, _, _)
\* lines 431-441: batch number k starts at row i; each batch is one transaction
InsertBatches(tdb, table_name, columns, data_len, i, k, failBatch) ==
    IF i >= data_len THEN [ok |-> TRUE, db |-> tdb, log |-> <<>>, faulted |-> FALSE]
    ELSE LET batch == Min(batch_size, data_len - i)
             r == Execute(tdb, [Stmt("INSERT", table_name) EXCEPT
                                    !.columns = columns, !.count = batch], k = failBatch)
         IN IF ~ r.ok
            THEN [ok |-> FALSE, db |-> tdb, log |-> r.log, faulted |-> k = failBatch]
            ELSE LET rest == InsertBatches(r.db, table_name, columns, data_len,
                                           i + batch_size, k + 1, failBatch)
                 IN [ok |-> rest.ok, db |-> rest.db, log |-> r.log \o rest.log,
                     faulted |-> rest.faulted]

\* mutant: a failed batch takes the batches committed before it with it
_insert_data_AllOrNothing(tdb, table_name, columns, data_len, failBatch) ==
    LET r == InsertBatches(tdb, table_name, columns, data_len, 0, 1, failBatch)
    IN IF r.ok THEN r ELSE [r EXCEPT !.db = tdb]

\* _insert_data, lines 418-447
_insert_data(tdb, table_name, columns, data_len, failBatch) ==
    InsertBatches(tdb, table_name, columns, data_len, 0, 1, failBatch)

\* ------------------------------------------------------------------- run
RunTables == {1, 2}

TargetVariants ==
    {"same", "absent", "drop_a", "extra_x", "type_a", "null_a", "default_b", "swap_ab",
     "no_fks", "extra_fk", "no_idx_a", "extra_idx"}

\* a target table that has drifted from the source table `schema` in one respect
Variant(schema, t, kind) ==
    LET cols == schema.cols
        ia == IndexOfField(cols, "a")
        ib == IndexOfField(cols, "b")
        NotA(c) == c.Field # "a"
        NotOnA(r) == r.Column_name # "a"
        NotIdxA(r) == r.Key_name # "idx_a"
        present == [schema EXCEPT !.rows = 7]
    IN CASE kind = "absent" -> NoTable
         [] kind = "drop_a" -> [present EXCEPT !.cols = SelectSeq(cols, NotA),
                                               !.idx = SelectSeq(schema.idx, NotOnA)]
         [] kind = "extra_x" ->
                [present EXCEPT !.cols = Append(cols, Column("x", "int", "YES", NoDefault))]
         [] kind = "type_a" -> [present EXCEPT !.cols[ia].Type = "text"]
         [] kind = "null_a" -> [present EXCEPT !.cols[ia].Null = "NO"]
         [] kind = "default_b" -> [present EXCEPT !.cols[ib].Default = "1"]
         [] kind = "swap_ab" ->
                [present EXCEPT !.cols = [cols EXCEPT ![ia] = cols[ib], ![ib] = cols[ia]]]
         [] kind = "no_fks" -> [present EXCEPT !.fks = {}]
         [] kind = "extra_fk" ->
                [present EXCEPT !.fks = schema.fks \cup
                    {ForeignKey("ref_id", t, "id", ConstraintName("old", t, "ref_id", t))}]
         [] kind = "no_idx_a" -> [present EXCEPT !.idx = SelectSeq(schema.idx, NotIdxA)]
         [] kind = "extra_idx" ->
                [present EXCEPT !.idx = Append(schema.idx, IndexRow("idx_b", 1, 1, "b"))]
         [] OTHER -> present

Prefixes(n) == {[i \in 1..k |-> i] : k \in 0..n}

Init ==
    /\ src \in {SourceDb(RunTables, E) : E \in Graphs(RunTables)}
    /\ tgt \in {[t \in RunTables |-> Variant(src[t], t, kinds[t])] :
                    kinds \in [RunTables -> TargetVariants]}
    /\ tgt0 = tgt
    /\ all_tables \in Prefixes(Cardinality(RunTables)) \ {<<>>}
    /\ maintain_tables \in Prefixes(Cardinality(RunTables))
    /\ pc = "idle"
    /\ plan = <<>>
    /\ tables_to_create = <<>>
    /\ tables_to_alter = <<>>
    /\ cursor = 1
    /\ log = <<>>
    /\ calls = <<>>
    /\ messages = <<>>
    /\ tests = [source |-> "untested", target |-> "untested"]
    /\ backup = "none"
    /\ faults = 0
    /\ struct_result = "none"
    /\ result = "none"
    /\ SchedIdle
    /\ AnalyzerIdle
    /\ ConnIdle

\* mutant: the statements are sent through self.source_db
WriteManager_Source == "source_db"

\* the manager every writing call of the replicator is made on: self.target_db at lines
\* 104, 175, 217, 280, 368, 408, 435 and 480; self.source_db is only read
WriteManager == "target_db"

\* the database of `manager` after a call that left the database it wrote as `after`
Written(manager, db, after) == IF manager = WriteManager THEN after ELSE db

\* whether one more statement or connection may fail for a reason of its own
FaultChoices == IF faults < MaxFaults THEN {FALSE, TRUE} ELSE {FALSE}

FailAtChoices(n) == IF faults < MaxFaults THEN 0..n ELSE {0}

Tagged(entries, phase) ==
    [i \in 1..Len(entries) |->
        [stmt |-> entries[i].stmt, ok |-> entries[i].ok, err |-> entries[i].err,
         phase |-> phase]]

Call(phase, t) == [phase |-> phase, table |-> t]

RECURSIVE CreateList(_, _)
\* lines 36-41: the tables of the plan that have a create_table action
CreateList(p, i) ==
    IF i > Len(p) THEN <<>>
    ELSE (IF \E k \in 1..Len(p[i].actions) : p[i].actions[k].type = "create_table"
          THEN <<p[i].table>> ELSE <<>>) \o CreateList(p, i + 1)

RECURSIVE AlterList_Reversed(_, _)
\* mutant: the (table, action) pairs are collected last step first
AlterList_Reversed(p, i) ==
    IF i > Len(p) THEN <<>>
    ELSE LET Structural(a) == a.type \in {"alter_table", "update_foreign_keys",
                                          "update_indexes"}
             acts == SelectSeq(p[i].actions, Structural)
         IN AlterList_Reversed(p, i + 1)
            \o [k \in 1..Len(acts) |-> [table |-> p[i].table, action |-> acts[k]]]

RECURSIVE AlterList(_, _)
\* lines 36-43: the (table, action) pairs of the plan, in plan order
AlterList(p, i) ==
    IF i > Len(p) THEN <<>>
    ELSE LET Structural(a) == a.type \in {"alter_table", "update_foreign_keys",
                                          "update_indexes"}
             acts == SelectSeq(p[i].actions, Structural)
         IN [k \in 1..Len(acts) |-> [table |-> p[i].table, action |-> acts[k]]]
            \o AlterList(p, i + 1)

\* the loop of replicate_structure the run is in after position (phase, i)
NextPos(phase, i, ttc, tta) ==
    IF phase = "create" /\ i <= Len(ttc) THEN [pc |-> "create", cursor |-> i]
    ELSE IF phase = "create" /\ tta # <<>> THEN [pc |-> "alter", cursor |-> 1]
    ELSE IF phase = "alter" /\ i <= Len(tta) THEN [pc |-> "alter", cursor |-> i]
    ELSE IF phase \in {"create", "alter"} /\ ttc # <<>>
         THEN [pc |-> "reconcile", cursor |-> 1]
    ELSE IF phase = "reconcile" /\ i <= Len(ttc) THEN [pc |-> "reconcile", cursor |-> i]
    ELSE [pc |-> "return", cursor |-> 1]

\* mutant: only the source connection is looked at
AfterTests_SourceOnly(source_ok, target_ok) == IF source_ok THEN "structure" ELSE "done"

\* full_replication, lines 137-143: where the run goes after the two tests
AfterTests(source_ok, target_ok) ==
    IF source_ok /\ target_ok THEN "structure" ELSE "done"

\* full_replication, lines 136-143: both connections are tested before anything else
\* (test_connection returns False when the connection or its SELECT 1 fails)
TestConnections ==
    /\ pc = "idle"
    /\ \E failed \in {"none"} \cup (IF faults < MaxFaults THEN {"source", "target"} ELSE {}) :
        /\ faults' = faults + (IF failed = "none" THEN 0 ELSE 1)
        \* line 137 returns before the target is tested
        /\ tests' = [source |-> IF failed = "source" THEN "failed" ELSE "ok",
                     target |-> CASE failed = "source" -> "untested"
                                  [] failed = "target" -> "failed"
                                  [] OTHER -> "ok"]
        /\ pc' = AfterTests(failed # "source", failed # "target")
        /\ result' = IF AfterTests(failed # "source", failed # "target") = "done"
                     THEN "failure" ELSE result
    /\ UNCHANGED <<src, sched_vars, analyzer_vars, conn_vars, messages, backup,
                   tgt, tgt0, all_tables, maintain_tables, plan,
                   tables_to_create, tables_to_alter, cursor, log, calls, struct_result>>

\* replicate_structure, lines 24-28: create_backup raises, the run returns False
BackupFails ==
    /\ pc = "structure"
    /\ faults < MaxFaults
    /\ faults' = faults + 1
    /\ backup' = "failed"
    /\ struct_result' = "failure"
    /\ result' = "failure"
    /\ pc' = "done"
    /\ UNCHANGED <<src, sched_vars, analyzer_vars, conn_vars, messages, tests,
                   tgt, tgt0, all_tables, maintain_tables, plan,
                   tables_to_create, tables_to_alter, cursor, log, calls>>

\* replicate_structure, lines 25-47: backup (create_backup is True), plan, split, sort
StructureStart ==
    /\ pc = "structure"
    /\ backup' = "created"
    /\ LET p == get_replication_plan(src, tgt, all_tables, maintain_tables)
           tta == AlterList(p, 1)
       IN /\ plan' = p
          /\ tables_to_alter' = tta
          /\ \E ttc \in (IF CreateList(p, 1) = <<>> THEN {<<>>}
                         ELSE _sort_tables_by_dependency(src, CreateList(p, 1))) :
                /\ tables_to_create' = ttc
                /\ pc' = NextPos("create", 1, ttc, tta).pc
                /\ cursor' = NextPos("create", 1, ttc, tta).cursor
    /\ UNCHANGED <<src, sched_vars, analyzer_vars, conn_vars, messages, tests,
                   tgt, tgt0, all_tables, maintain_tables,
                   log, calls, faults, struct_result, result>>

\* replicate_structure, lines 51-53: one _create_table call, its result ignored
CreateStep ==
    /\ pc = "create"
    /\ LET table_name == tables_to_create[cursor]
       IN \E fault \in FaultChoices :
            LET r == _create_table(src, tgt, table_name, fault)
                next == NextPos("create", cursor + 1, tables_to_create, tables_to_alter)
            IN /\ tgt' = Written("target_db", tgt, r.db)
               /\ src' = Written("source_db", src, r.db)
               /\ log' = log \o Tagged(r.log, "create")
               /\ calls' = Append(calls, Call("create", table_name))
               /\ faults' = faults + (IF fault THEN 1 ELSE 0)
               /\ pc' = next.pc
               /\ cursor' = next.cursor
    /\ UNCHANGED <<sched_own, analyzer_vars, conn_vars, messages, tests, backup,
                   tgt0, all_tables, maintain_tables, plan,
                   tables_to_create, tables_to_alter, struct_result, result>>

\* the lists _compare_foreign_keys can return for one set of differences: the missing
\* foreign keys (line 152) in any order, then the extra ones (line 161) in any order
ForeignKeyDiffOrders(differences) ==
    LET missing == {d \in differences : d.type = "missing_foreign_key"}
        extra == {d \in differences : d.type = "extra_foreign_key"}
    IN {m \o e : m \in Orders(missing), e \in Orders(extra)}

ActionPhase(type) ==
    CASE type = "alter_table" -> "alter"
      [] type = "update_foreign_keys" -> "fk"
      [] OTHER -> "index"

\* replicate_structure, lines 57-65: one (table, action) pair, the result ignored
AlterStep ==
    /\ pc = "alter"
    /\ LET table_name == tables_to_alter[cursor].table
           action == tables_to_alter[cursor].action
           next == NextPos("alter", cursor + 1, tables_to_create, tables_to_alter)
           Outcomes ==
               CASE action.type = "alter_table" ->
                        {_alter_table(src, tgt, table_name, action.differences, f) :
                            f \in FailAtChoices(Len(action.differences))}
                 [] action.type = "update_foreign_keys" ->
                        {_update_foreign_keys(tgt, table_name, o, f) :
                            o \in ForeignKeyDiffOrders(action.differences),
                            f \in FailAtChoices(Cardinality(action.differences))}
                 [] OTHER ->
                        {_update_indexes(src, tgt, table_name, action.differences, f) :
                            f \in FailAtChoices(Len(action.differences))}
       IN \E r \in Outcomes :
            /\ tgt' = Written("target_db", tgt, r.db)
            /\ src' = Written("source_db", src, r.db)
            /\ log' = log \o Tagged(r.log, ActionPhase(action.type))
            /\ calls' = Append(calls, Call(ActionPhase(action.type), table_name))
            /\ faults' = faults + (IF r.faulted THEN 1 ELSE 0)
            /\ pc' = next.pc
            /\ cursor' = next.cursor
    /\ UNCHANGED <<sched_own, analyzer_vars, conn_vars, messages, tests, backup,
                   tgt0, all_tables, maintain_tables, plan,
                   tables_to_create, tables_to_alter, struct_result, result>>

\* _add_missing_foreign_keys, lines 452-485: one table of tables_to_create
ReconcileStep ==
    /\ pc = "reconcile"
    /\ LET table_name == tables_to_create[cursor]
           missing_fks == MissingForeignKeys(src, tgt, table_name)
           next == NextPos("reconcile", cursor + 1, tables_to_create, tables_to_alter)
       IN \E o \in Orders(missing_fks) : \E f \in FailAtChoices(Len(o)) :
            LET r == AddForeignKeys(tgt, table_name, o, 1, f)
            IN /\ f # 0 => r.faulted
               /\ tgt' = Written("target_db", tgt, r.db)
               /\ src' = Written("source_db", src, r.db)
               /\ log' = log \o Tagged(r.log, "reconcile")
               /\ calls' = Append(calls, Call("reconcile", table_name))
               /\ faults' = faults + (IF r.faulted THEN 1 ELSE 0)
               /\ pc' = next.pc
               /\ cursor' = next.cursor
    /\ UNCHANGED <<sched_own, analyzer_vars, conn_vars, messages, tests, backup,
                   tgt0, all_tables, maintain_tables, plan,
                   tables_to_create, tables_to_alter, struct_result, result>>

\* replicate_structure line 72 returns True; full_replication lines 146-157 goes on
\* to replicate_data when maintain_tables is not empty
\* mutant: the data of every listed table is copied
DataTables_All(all, maintain) == all

\* full_replication, lines 150-151: the tables replicate_data is called with
DataTables(all, maintain) == maintain

StructureReturn ==
    /\ pc = "return"
    /\ struct_result' = "success"
    /\ IF DataTables(all_tables, maintain_tables) # <<>>
       THEN pc' = "data" /\ cursor' = 1 /\ result' = result
       ELSE pc' = "done" /\ cursor' = cursor /\ result' = "success"
    /\ UNCHANGED <<src, sched_vars, analyzer_vars, conn_vars, messages, tests, backup,
                   tgt, tgt0, all_tables, maintain_tables, plan,
                   tables_to_create, tables_to_alter, log, calls, faults>>

\* get_table_data, lines 136-145: every row of the table, [] when the query fails
\* (rows are modelled by their number)
get_table_data(db, table_name, fault) ==
    IF fault THEN 0 ELSE get_table_count(db, table_name)

\* what replicate_data logs about one table: lines 105, 114 and 120
Message(level, table_name, source_count, target_count) ==
    [level |-> level, table |-> table_name, source_count |-> source_count,
     target_count |-> target_count]

\* replicate_data, lines 102-120, for one table: clear, read the source, insert, count
\* lines 108-110: the rows read are inserted into the cleared table, none when none
\* were read
Fill(table_name, clear, source_data, failBatch) ==
    IF source_data > 0
    THEN _insert_data(clear.db, table_name,
                      FieldOrder(get_table_structure(src, table_name)),
                      source_data, failBatch)
    ELSE [ok |-> TRUE, db |-> clear.db, log |-> <<>>, faulted |-> FALSE]

\* lines 104-120: what replicate_data makes of the clear `clear`, the `source_data`
\* rows read and the insert `ins`
Report(table_name, clear, source_data, ins, truncate_fault, read_fault, failBatch, count_fault) ==
    LET \* line 156: the count is 0 when the query fails
        target_count == IF count_fault THEN 0 ELSE get_table_count(ins.db, table_name)
        cleared == IF truncate_fault # 0 THEN 1 ELSE 0
    IN IF ~ clear.ok
       \* the DELETE fails for the reason the TRUNCATE failed: one fault
       THEN [ok |-> FALSE, db |-> clear.db, log |-> clear.log, spent |-> 1,
             used |-> ~ read_fault /\ failBatch = 0 /\ ~ count_fault,
             message |-> Message("error", table_name, 0, 0)]
       ELSE IF ~ ins.ok
       THEN [ok |-> FALSE, db |-> ins.db, log |-> clear.log \o ins.log,
             spent |-> cleared + (IF ins.faulted THEN 1 ELSE 0),
             used |-> ~ read_fault /\ ~ count_fault,
             message |-> Message("error", table_name, source_data, 0)]
       ELSE [ok |-> TRUE, db |-> ins.db, log |-> clear.log \o ins.log,
             spent |-> cleared + (IF read_fault THEN 1 ELSE 0)
                       + (IF count_fault THEN 1 ELSE 0),
             used |-> failBatch = 0,
             message |-> Message("success", table_name, source_data, target_count)]

\* the insert that follows the clear `clear` and the read of `source_data` rows
CopyInto(table_name, clear, source_data, truncate_fault, read_fault, failBatch, count_fault) ==
    Report(table_name, clear, source_data,
           Fill(table_name, clear, source_data, failBatch),
           truncate_fault, read_fault, failBatch, count_fault)

\* replicate_data, lines 102-120, for one table: clear, read the source, insert, count
Copy(table_name, truncate_fault, delete_fault, read_fault, failBatch, count_fault) ==
    CopyInto(table_name,
             truncate_table(tgt, table_name, truncate_fault, delete_fault),
             get_table_data(src, table_name, read_fault),
             truncate_fault, read_fault, failBatch, count_fault)

NumBatches(n) == (n + batch_size - 1) \div batch_size

\* Every way the copy of one table can go with the faults still allowed (`used`: each
\* fault chosen is one that happens on the path taken).
CopyOutcomes(table_name) ==
    LET batches == NumBatches(get_table_count(src, table_name))
        \* the faults a choice asks for (a failing DELETE goes with the failing TRUNCATE)
        Asked(x) == (IF x[1] # 0 THEN 1 ELSE 0) + (IF x[3] THEN 1 ELSE 0)
                    + (IF x[4] # 0 THEN 1 ELSE 0) + (IF x[5] THEN 1 ELSE 0)
        all == {Copy(table_name, c[1], c[2], c[3], c[4], c[5]) :
                    c \in {x \in (0..2) \X (0..2) \X BOOLEAN \X (0..batches) \X BOOLEAN :
                              /\ x[2] # 0 => x[1] # 0
                              /\ Asked(x) <= MaxFaults - faults}}
    IN {o \in all : o.used /\ o.spent <= MaxFaults - faults}

\* mutant: a table that could not be cleared or filled is passed over
AfterCopy_Continue(ok, i) == [pc |-> "data", cursor |-> i + 1, result |-> "none"]

\* replicate_data, lines 104-115, and full_replication, lines 151-152: a table that
\* could not be cleared or filled ends the run with failure
AfterCopy(ok, i) ==
    IF ok THEN [pc |-> "data", cursor |-> i + 1, result |-> "none"]
    ELSE [pc |-> "done", cursor |-> i, result |-> "failure"]

\* replicate_data, lines 83-120: one iteration of the loop over the tables it is given
DataStep ==
    /\ pc = "data"
    /\ cursor <= Len(DataTables(all_tables, maintain_tables))
    /\ LET table_name == DataTables(all_tables, maintain_tables)[cursor]
       IN IF \/ ~ table_exists(src, table_name)
             \/ ~ table_exists(tgt, table_name)
             \/ get_table_structure(src, table_name) = <<>>
          THEN /\ cursor' = cursor + 1
               /\ UNCHANGED <<src, tgt, log, calls, messages, faults, pc, result>>
          ELSE \E o \in CopyOutcomes(table_name) :
               /\ tgt' = Written("target_db", tgt, o.db)
               /\ src' = Written("source_db", src, o.db)
               /\ log' = log \o Tagged(o.log, "data")
               /\ calls' = Append(calls, Call("data", table_name))
               /\ messages' = Append(messages, o.message)
               /\ faults' = faults + o.spent
               /\ pc' = AfterCopy(o.ok, cursor).pc
               /\ cursor' = AfterCopy(o.ok, cursor).cursor
               /\ result' = AfterCopy(o.ok, cursor).result
    /\ UNCHANGED <<sched_own, analyzer_vars, conn_vars, tests, backup, tgt0, all_tables,
                   maintain_tables, plan, tables_to_create, tables_to_alter,
                   struct_result>>

\* replicate_data line 123 and full_replication line 157 return True
FullReturn ==
    /\ pc = "data"
    /\ cursor > Len(DataTables(all_tables, maintain_tables))
    /\ pc' = "done"
    /\ result' = "success"
    /\ UNCHANGED <<src, sched_vars, analyzer_vars, conn_vars, messages, tests, backup,
                   tgt, tgt0, all_tables, maintain_tables, plan,
                   tables_to_create, tables_to_alter, cursor, log, calls, faults,
                   struct_result>>

Next ==
    \/ TestConnections
    \/ BackupFails
    \/ StructureStart
    \/ CreateStep
    \/ AlterStep
    \/ ReconcileStep
    \/ StructureReturn
    \/ DataStep
    \/ FullReturn

Spec == Init /\ [][Next]_vars

\* ------------------------------------------- one table, columns and indexes
\* the columns of `cols` at the positions K, in the order of `cols`
KeepColumns(cols, K) ==
    [j \in 1..Cardinality(K) |->
        cols[CHOOSE i \in K : Cardinality({x \in K : x < i}) = j - 1]]

\* the column lists of a target table: every part of the source columns in source
\* order, the source columns in another order, with a column more, with another type
ColumnVariants(cols) ==
    LET ia == IndexOfField(cols, "a")
        ib == IndexOfField(cols, "b")
    IN {KeepColumns(cols, K) : K \in (SUBSET (1..Len(cols))) \ {{}}}
       \cup {[cols EXCEPT ![ia] = cols[ib], ![ib] = cols[ia]],
             [i \in 1..Len(cols) |-> cols[Len(cols) + 1 - i]],
             Append(cols, Column("x", "int", "YES", NoDefault)),
             [cols EXCEPT ![ia].Type = "text"]}

\* the index rows of a target table: any of the indexes of BaseIdx, and idx_b or not
IndexVariants ==
    LET Named(N) == LET In(r) == r.Key_name \in N IN SelectSeq(BaseIdx, In)
    IN {Named(N) \o extra :
            N \in SUBSET IndexNames(BaseIdx),
            extra \in {<<>>, <<IndexRow("idx_b", 1, 1, "b")>>}}

\* the target tables for the source table `schema`; an index or a foreign key has only
\* the columns the table has
TableVariants(schema) ==
    LET On(i, c) == LET Has(r) == r.Column_name \in Fields(c) IN SelectSeq(i, Has)
    IN {NoTable} \cup
       {[exists |-> TRUE, cols |-> c,
         fks |-> {fk \in schema.fks : fk.COLUMN_NAME \in Fields(c)},
         idx |-> On(i, c),
         rows |-> 7] : c \in ColumnVariants(schema.cols), i \in IndexVariants}

\* the source table: with or without a foreign key on itself, with or without PRIMARY
SourceTables ==
    LET Without(rows, N) == LET Kept(r) == r.Key_name \notin N IN SelectSeq(rows, Kept)
    IN {[SourceDb({1}, E) EXCEPT ![1].idx = Without(@, N)] :
            E \in Graphs({1}), N \in {{}, {"PRIMARY"}}}

InitTable ==
    /\ src \in SourceTables
    /\ tgt \in {[t \in {1} |-> v] : v \in TableVariants(src[1])}
    /\ tgt0 = tgt
    /\ all_tables = <<1>>
    /\ maintain_tables \in Prefixes(1)
    /\ pc = "idle"
    /\ plan = <<>>
    /\ tables_to_create = <<>>
    /\ tables_to_alter = <<>>
    /\ cursor = 1
    /\ log = <<>>
    /\ calls = <<>>
    /\ messages = <<>>
    /\ tests = [source |-> "untested", target |-> "untested"]
    /\ backup = "none"
    /\ faults = 0
    /\ struct_result = "none"
    /\ result = "none"
    /\ SchedIdle
    /\ AnalyzerIdle
    /\ ConnIdle

\* full_replication of the one table
SpecTable == InitTable /\ [][Next]_vars

\* ------------------------------------------------------- analyzer alone
\* a target table as Variant makes it, or with every constraint renamed, or with
\* columns that differ from the source in several attributes at once
AnalyzerVariants ==
    TargetVariants \cup {"renamed_fks", "type_null_a", "null_default_b", "all_a", "mixed"}

AnalyzerVariant(schema, t, kind) ==
    LET ia == IndexOfField(schema.cols, "a")
        ib == IndexOfField(schema.cols, "b")
        present == [schema EXCEPT !.rows = 7]
        NotRefId(c) == c.Field # "ref_id"
    IN
    IF kind = "type_null_a"
    THEN [present EXCEPT !.cols[ia].Type = "text", !.cols[ia].Null = "NO"]
    ELSE IF kind = "null_default_b"
    THEN [present EXCEPT !.cols[ib].Null = "YES", !.cols[ib].Default = NoDefault]
    ELSE IF kind = "all_a"
    THEN [present EXCEPT !.cols[ia] = Column("a", "text", "NO", "none")]
    ELSE IF kind = "mixed"
    THEN [present EXCEPT !.cols[ia] = Column("a", "text", "NO", "none"),
                         !.cols[ib].Default = "1",
                         !.cols = SelectSeq(@, NotRefId)]
    ELSE IF kind = "renamed_fks"
    THEN [schema EXCEPT !.rows = 7,
                        !.fks = {ForeignKey(fk.COLUMN_NAME, fk.REFERENCED_TABLE_NAME,
                                            fk.REFERENCED_COLUMN_NAME,
                                            ConstraintName("old", t, fk.COLUMN_NAME,
                                                           fk.REFERENCED_TABLE_NAME)) :
                                     fk \in schema.fks}]
    ELSE Variant(schema, t, kind)

\* the analyzer as it is built (source, target), the one built the other way round, and
\* the ones built with the same database on both sides
Directions == {"forward", "backward", "source_self", "target_self"}

\* the second table is there to give the plan more than one step
SecondTableVariants == {"same", "absent", "type_a", "no_fks"}

InitAnalyzer ==
    /\ \E E \in Graphs(RunTables), P \in SUBSET RunTables,
          kinds \in [RunTables -> AnalyzerVariants] :
        /\ kinds[2] \in SecondTableVariants
        /\ src = [t \in RunTables |->
                    IF t \in P THEN SourceDb(RunTables, E)[t] ELSE NoTable]
        /\ tgt = [t \in RunTables |->
                    AnalyzerVariant(SourceDb(RunTables, E)[t], t, kinds[t])]
    /\ tgt0 = tgt
    /\ all_tables = [i \in 1..Cardinality(RunTables) |-> i]
    /\ maintain_tables \in Prefixes(1)
    /\ pc = "idle"
    /\ plan = <<>>
    /\ tables_to_create = <<>>
    /\ tables_to_alter = <<>>
    /\ cursor = 1
    /\ log = <<>>
    /\ calls = <<>>
    /\ messages = <<>>
    /\ tests = [source |-> "untested", target |-> "untested"]
    /\ backup = "none"
    /\ faults = 0
    /\ struct_result = "none"
    /\ result = "none"
    /\ SchedIdle
    /\ AnalyzerIdle
    /\ ConnIdle

\* analyze_table_differences for every table, by each of the four analyzers
AnalyzeTables ==
    /\ analysis = <<>>
    /\ analysis' =
        [k \in RunTables \X Directions |->
            CASE k[2] = "forward" -> analyze_table_differences(src, tgt, k[1])
              [] k[2] = "backward" -> analyze_table_differences(tgt, src, k[1])
              [] k[2] = "source_self" -> analyze_table_differences(src, src, k[1])
              [] OTHER -> analyze_table_differences(tgt, tgt, k[1])]
    /\ UNCHANGED <<sched_vars, run_vars, conn_vars>>

\* get_replication_plan for the listed tables
PlanTables ==
    /\ pc = "idle"
    /\ plan' = get_replication_plan(src, tgt, all_tables, maintain_tables)
    /\ pc' = "planned"
    /\ UNCHANGED <<src, sched_vars, analyzer_vars, conn_vars, messages, tests, backup,
                   tgt, tgt0, all_tables, maintain_tables,
                   tables_to_create, tables_to_alter, cursor, log, calls, faults,
                   struct_result, result>>

NextAnalyzer ==
    \/ AnalyzeTables
    \/ PlanTables

SpecAnalyzer == InitAnalyzer /\ [][NextAnalyzer]_vars

\* ------------------------------------------- DatabaseManager connections
MaxOps == 3

\* the operations that open a connection: the DatabaseManager methods (all of the shape
\* of execute_query; truncate_table opens a second connection when the first attempt
\* raised) and the batch insert of Replicator._insert_data
Operations ==
    {"test_connection", "get_table_data", "execute_query", "execute_queries",
     "truncate_table", "_insert_data"}

\* mutant: the connection is closed after the yield and not in a finally block
Release_NotAfterError(self_connection, objects, exc) ==
    IF exc = "none" /\ self_connection # 0 /\ objects[self_connection] = "open"
    THEN [objects EXCEPT ![self_connection] = "closed"]
    ELSE objects

\* get_connection, lines 29-31: close self.connection if it is connected
Release(self_connection, objects, exc) ==
    IF self_connection # 0 /\ objects[self_connection] = "open"
    THEN [objects EXCEPT ![self_connection] = "closed"]
    ELSE objects

InitConn ==
    /\ src = <<>>
    /\ SchedIdle
    /\ RunIdle
    /\ AnalyzerIdle
    /\ ConnIdle

\* an operation is called on one of the managers (one at a time: the program has one
\* thread and no operation calls another inside its with block)
OpCall ==
    /\ operation.pc = "idle"
    /\ ops < MaxOps
    /\ \E m \in Managers, name \in Operations :
        /\ name = "_insert_data" => m = "target_db"
        /\ operation' = [mgr |-> m, name |-> name, pc |-> "connect", exc |-> "none", attempt |-> 1]
    /\ ops' = ops + 1
    /\ UNCHANGED <<sched_vars, run_vars, analyzer_vars, connection, conns>>

\* get_connection, lines 17-25: connect and yield, or connect raises Error
Connect ==
    /\ operation.pc = "connect"
    /\ \/ /\ conns' = [conns EXCEPT ![operation.mgr] = Append(@, "open")]
          /\ connection' = [connection EXCEPT ![operation.mgr] = Len(conns[operation.mgr]) + 1]
          /\ operation' = [operation EXCEPT !.pc = "body"]
       \/ /\ operation' = [operation EXCEPT !.pc = "except", !.exc = "Error"]
          /\ UNCHANGED <<connection, conns>>
    /\ UNCHANGED <<sched_vars, run_vars, analyzer_vars, ops>>

\* the with block: the statements run, or one raises mysql.connector.Error (the
\* connection alive or lost), or something else is raised (e.g. fetchone() is None)
Body ==
    /\ operation.pc = "body"
    /\ \/ operation' = [operation EXCEPT !.pc = "finally"] /\ conns' = conns
       \/ operation' = [operation EXCEPT !.pc = "except", !.exc = "Error"] /\ conns' = conns
       \/ /\ operation' = [operation EXCEPT !.pc = "except", !.exc = "Error"]
          /\ conns' = [conns EXCEPT ![operation.mgr][connection[operation.mgr]] = "lost"]
       \/ operation' = [operation EXCEPT !.pc = "finally", !.exc = "Exception"] /\ conns' = conns
    /\ UNCHANGED <<sched_vars, run_vars, analyzer_vars, connection, ops>>

\* get_connection, lines 26-28: log and raise again
Except ==
    /\ operation.pc = "except"
    /\ operation' = [operation EXCEPT !.pc = "finally"]
    /\ UNCHANGED <<sched_vars, run_vars, analyzer_vars, connection, conns, ops>>

\* get_connection, lines 29-31, then the operation's own handler: truncate_table tries
\* DELETE on a new connection when TRUNCATE raised Error (lines 189-192), every other
\* operation returns or lets the exception through
Finally ==
    /\ operation.pc = "finally"
    /\ conns' = [conns EXCEPT
                    ![operation.mgr] = Release(connection[operation.mgr], @, operation.exc)]
    /\ operation' =
             IF /\ operation.name = "truncate_table"
                /\ operation.exc = "Error"
                /\ operation.attempt = 1
             THEN [operation EXCEPT !.pc = "connect", !.exc = "none", !.attempt = 2]
             ELSE [operation EXCEPT !.pc = "done"]
    /\ UNCHANGED <<sched_vars, run_vars, analyzer_vars, connection, ops>>

\* the operation has returned or raised; the caller goes on
OpReturn ==
    /\ operation.pc = "done"
    /\ operation' = NoOperation
    /\ UNCHANGED <<sched_vars, run_vars, analyzer_vars, connection, conns, ops>>

NextConn ==
    \/ OpCall
    \/ Connect
    \/ Body
    \/ Except
    \/ Finally
    \/ OpReturn

SpecConn == InitConn /\ [][NextConn]_vars

\* ------------------------------------------------- scheduler properties
Pos(s, x) == CHOOSE i \in 1..Len(s) : s[i] = x

NoDuplicates(s) == \A i, j \in 1..Len(s) : s[i] = s[j] => i = j

RECURSIVE ReachFrom(_, _, _)
\* tables reachable from the set `frontier` along one or more dependency edges
ReachFrom(deps, frontier, seen) ==
    LET next == UNION {deps[t] : t \in frontier} \ seen
    IN IF next = {} THEN seen ELSE ReachFrom(deps, next, seen \cup next)

DependsOn(deps, t) == ReachFrom(deps, {t}, {})

OnCycle(deps, t) == t \in DependsOn(deps, t)

Acyclic(deps) == \A t \in DOMAIN deps : ~ OnCycle(deps, t)

AfterItsDependencies(t) ==
    \A d \in dependencies[t] : Pos(sorted_tables, d) < Pos(sorted_tables, t)

\* C7: the list returned by _sort_tables_by_dependency holds every table of its
\* input exactly once and nothing else, whatever the foreign-key graph (cycles,
\* self-references) and whatever the order of the input list.
C7_Permutation ==
    sched_pc = "done" =>
        /\ Range(sorted_tables) = Range(sched_tables)
        /\ NoDuplicates(sorted_tables)

C7_Witness ==
    /\ sched_pc = "done"
    /\ Len(sorted_tables) = 3
    /\ forced # {}
    /\ \E t \in DOMAIN dependencies : t \in dependencies[t]
    /\ \E t \in DOMAIN dependencies : OnCycle(dependencies, t) /\ t \notin dependencies[t]

\* C8: when the in-scope foreign-key graph has no cycle, every table is placed
\* after every in-scope table it references.
C8_AcyclicOrder ==
    (sched_pc = "done" /\ Acyclic(dependencies)) =>
        \A t \in DOMAIN dependencies : AfterItsDependencies(t)

C8_Witness ==
    /\ sched_pc = "done"
    /\ Acyclic(dependencies)
    /\ \E t, u, v \in DOMAIN dependencies :
        /\ u \in dependencies[t] /\ v \in dependencies[u]
        /\ sched_tables = <<t, u, v>>

\* C9 as stated: a table T none of whose dependencies has a path back to T is
\* placed after all of its dependencies, in every graph.
C9_Original ==
    sched_pc = "done" =>
        \A t \in DOMAIN dependencies :
            (\A d \in dependencies[t] : t \notin DependsOn(dependencies, d) /\ d # t)
                => AfterItsDependencies(t)

\* C9 amended: a table T is placed after all of its dependencies, and is never
\* taken by the forced pick, whenever neither T nor any table T depends on,
\* directly or transitively, lies on a cycle.
CycleFreeClosure(t) ==
    \A d \in DependsOn(dependencies, t) \cup {t} : ~ OnCycle(dependencies, d)

C9_CycleFreeClosure ==
    sched_pc = "done" =>
        \A t \in DOMAIN dependencies :
            CycleFreeClosure(t) => (AfterItsDependencies(t) /\ t \notin forced)

C9_Witness ==
    /\ sched_pc = "done"
    /\ forced # {}
    /\ \E t \in DOMAIN dependencies :
        /\ CycleFreeClosure(t)
        /\ dependencies[t] # {}

\* C10: every iteration of the while loop removes at least one table from
\* `remaining`, so the loop ends after at most one iteration per input table.
C10_IterationShrinks ==
    [][sched_iters' # sched_iters =>
        Cardinality(remaining') < Cardinality(remaining)]_vars

C10_Witness ==
    /\ sched_pc = "done"
    /\ sched_iters = 3
    /\ Cardinality(forced) >= 2

\* ------------------------------------------------------- run properties
StructurePhases == {"create", "alter", "fk", "index"}

CreatePhaseOver == pc \in {"alter", "reconcile", "return", "data", "done"} /\ plan # <<>>

ReconcileOver == pc = "return" \/ struct_result = "success"

\* a failed statement that is neither a foreign-key violation on create nor part of
\* the reconciliation
FatalFailure(e) ==
    /\ e.phase \in StructurePhases
    /\ ~ e.ok
    /\ ~ (e.phase = "create" /\ e.err = "fk")

\* C1: a statement that fails in the create, alter, foreign-key or index phase for a
\* reason other than the two recoverable ones ends the run: it is the last statement
\* sent to the target, and neither replicate_structure nor full_replication returns
\* success.
C1_AbortOnFailure ==
    \A i \in 1..Len(log) :
        FatalFailure(log[i]) =>
            /\ i = Len(log)
            /\ struct_result # "success"
            /\ result # "success"

\* C2: when no statement fails for a reason of its own, a table whose verbatim CREATE
\* met a foreign-key violation exists in the target once the create phase is over.
C2_RetryStripped ==
    (CreatePhaseOver /\ faults = 0) =>
        \A i \in 1..Len(log) :
            (log[i].phase = "create" /\ log[i].err = "fk") =>
                tgt[log[i].stmt.table].exists

PhaseRank(phase) ==
    CASE phase = "create" -> 1
      [] phase = "alter" -> 2
      [] phase = "fk" -> 3
      [] phase = "index" -> 4
      [] phase = "reconcile" -> 5
      [] OTHER -> 6

\* the four stages the executor really has
StageRank(phase) ==
    CASE phase = "create" -> 1
      [] phase \in {"alter", "fk", "index"} -> 2
      [] phase = "reconcile" -> 3
      [] OTHER -> 4

\* C3 as stated: the actions run phase by phase, create, alter, foreign-key, index,
\* reconciliation, data, every action of a phase before any action of the next.
C3_StrictPhases ==
    \A i, j \in 1..Len(calls) :
        i < j => PhaseRank(calls[i].phase) <= PhaseRank(calls[j].phase)

\* C3 amended: every create action runs before every alter, foreign-key and index
\* action, these before every reconciliation action, these before every data action;
\* the alter, foreign-key and index actions run in one pass over the plan, table by
\* table in plan order and, for one table, in the order alter, foreign-key, index.
C3_StagesInPlanOrder ==
    \A i, j \in 1..Len(calls) :
        i < j =>
            /\ StageRank(calls[i].phase) <= StageRank(calls[j].phase)
            /\ (StageRank(calls[i].phase) = 2 /\ StageRank(calls[j].phase) = 2) =>
                \/ Pos(all_tables, calls[i].table) < Pos(all_tables, calls[j].table)
                \/ /\ calls[i].table = calls[j].table
                   /\ PhaseRank(calls[i].phase) < PhaseRank(calls[j].phase)

C3_Witness ==
    /\ result = "success"
    /\ \E i, j \in 1..Len(calls) :
        /\ i < j
        /\ calls[i].phase \in {"fk", "index"}
        /\ calls[j].phase = "alter"
    /\ \E k \in 1..Len(calls) : calls[k].phase = "data"

\* the differences between source and target table other than the column order
RemainingDifferences(t) ==
    LET NotOrder(d) == d.type # "column_order_difference"
        NotPrimary(d) == d.index_name # "PRIMARY"
    IN /\ SelectSeq(_compare_structures(get_table_structure(src, t),
                                        get_table_structure(tgt, t)), NotOrder) = <<>>
       /\ _compare_foreign_keys(get_table_foreign_keys(src, t),
                                get_table_foreign_keys(tgt, t)) = {}
       /\ SelectSeq(_compare_indexes(get_table_indexes(src, t),
                                     get_table_indexes(tgt, t)), NotPrimary) = <<>>

\* C4: once replicate_structure has returned success (no statement having failed for
\* a reason of its own), every listed table of the source exists in the target and
\* differs from the source table in column order at most.
C4_StructuresAgree ==
    (struct_result = "success" /\ faults = 0) =>
        \A t \in Range(all_tables) :
            table_exists(src, t) => (table_exists(tgt, t) /\ RemainingDifferences(t))

\* C5: when every listed table was absent from the target and the foreign keys of the
\* listed tables reference listed tables only, a run that reports success (no
\* statement having failed for a reason of its own) leaves every listed table in the
\* target with every source foreign key.
C5_CreatedWithForeignKeys ==
    (/\ struct_result = "success"
     /\ faults = 0
     /\ \A t \in Range(all_tables) :
         /\ ~ table_exists(tgt0, t)
         /\ \A fk \in get_table_foreign_keys(src, t) :
             fk.REFERENCED_TABLE_NAME \in Range(all_tables)) =>
        \A t \in Range(all_tables) :
            /\ table_exists(tgt, t)
            /\ \A fk \in get_table_foreign_keys(src, t) :
                fk.REFERENCED_TABLE_NAME \in Range(all_tables) =>
                    FkTriple(fk) \in {FkTriple(k) : k \in get_table_foreign_keys(tgt, t)}

ReconcileAdded(t, f) ==
    \E i \in 1..Len(log) :
        /\ log[i].phase = "reconcile"
        /\ log[i].stmt.op = "ADD CONSTRAINT"
        /\ log[i].stmt.table = t
        /\ <<log[i].stmt.column, log[i].stmt.ref_table, log[i].stmt.ref_column>> = f

Analyzed == analysis # <<>>

OfType(differences, type) == {d \in differences : d.type = type}

ColumnsOf(a, type) == {d.column : d \in OfType(Range(a.structure_differences), type)}

ForeignKeysOf(a, type) ==
    {<<d.column, d.referenced_table, d.referenced_column>> :
        d \in OfType(a.foreign_key_differences, type)}

IndexesOf(a, type) == {d.index_name : d \in OfType(Range(a.index_differences), type)}

\* C11: comparing a schema with itself reports nothing: the column, foreign-key and
\* index comparisons of a database against itself are all empty, for every table.
C11_SelfDiffEmpty ==
    Analyzed =>
        \A t \in RunTables : \A d \in {"source_self", "target_self"} :
            /\ analysis[<<t, d>>].structure_differences = <<>>
            /\ analysis[<<t, d>>].foreign_key_differences = {}
            /\ analysis[<<t, d>>].index_differences = <<>>

C11_Witness ==
    /\ Analyzed
    /\ \E t \in RunTables :
        /\ analysis[<<t, "source_self">>].exists_in_source
        /\ analysis[<<t, "target_self">>].exists_in_target
        /\ get_table_foreign_keys(src, t) # {}
        /\ get_table_structure(src, t) # get_table_structure(tgt, t)

\* C12: what comparing A with B reports missing is what comparing B with A reports
\* extra, and the other way round: the same columns, the same foreign keys (as
\* triples) and the same index names.
C12_MissingIsExtraSwapped ==
    Analyzed =>
        \A t \in RunTables :
            LET ab == analysis[<<t, "forward">>]
                ba == analysis[<<t, "backward">>]
            IN /\ ColumnsOf(ab, "missing_column") = ColumnsOf(ba, "extra_column")
               /\ ColumnsOf(ab, "extra_column") = ColumnsOf(ba, "missing_column")
               /\ ForeignKeysOf(ab, "missing_foreign_key")
                    = ForeignKeysOf(ba, "extra_foreign_key")
               /\ ForeignKeysOf(ab, "extra_foreign_key")
                    = ForeignKeysOf(ba, "missing_foreign_key")
               /\ IndexesOf(ab, "missing_index") = IndexesOf(ba, "extra_index")
               /\ IndexesOf(ab, "extra_index") = IndexesOf(ba, "missing_index")

C12_Witness ==
    /\ Analyzed
    /\ \E t \in RunTables :
        /\ ColumnsOf(analysis[<<t, "forward">>], "missing_column") # {}
        /\ IndexesOf(analysis[<<t, "forward">>], "missing_index") # {}
    /\ \E t \in RunTables :
        ForeignKeysOf(analysis[<<t, "forward">>], "missing_foreign_key") # {}

\* ----------------------------------------------------- data properties
Copied(i) == messages[i].level = "success"

CopyFailed(i) == messages[i].level = "error"

\* the INSERT statements sent for table t, in order
DataInserts(t) ==
    LET IsInsert(e) == e.phase = "data" /\ e.stmt.op = "INSERT" /\ e.stmt.table = t
    IN SelectSeq(log, IsInsert)

\* C13: a table whose copy replicate_data reported as done holds as many rows in the
\* target as the source table has (none when the source table is empty).
C13_CopiedRowCount ==
    \A i \in 1..Len(messages) :
        Copied(i) =>
            get_table_count(tgt, messages[i].table) = get_table_count(src, messages[i].table)

\* C14: the rows go in consecutive batches of at most batch_size rows; a batch that
\* fails is the last one attempted, the run fails, and the target table holds the rows
\* of the batches before it and no others.
C14_BatchesCommitted ==
    \A t \in RunTables :
        LET ins == DataInserts(t)
        IN \A k \in 1..Len(ins) :
            /\ ins[k].stmt.count = Min(batch_size,
                                       get_table_count(src, t) - (k - 1) * batch_size)
            /\ ins[k].stmt.count > 0
            /\ ~ ins[k].ok =>
                /\ k = Len(ins)
                /\ result = "failure"
                /\ get_table_count(tgt, t) = (k - 1) * batch_size

C14_Witness ==
    \E t \in RunTables :
        /\ Len(DataInserts(t)) = 3
        /\ ~ DataInserts(t)[3].ok
        /\ get_table_count(tgt, t) = 2 * batch_size

\* C15: a table that could not be cleared or filled ends the data phase: the run
\* returns failure, nothing is sent for a table later in the list, and the tables
\* copied before it keep the rows copied into them.
C15_DataFailureAborts ==
    \A i \in 1..Len(messages) :
        CopyFailed(i) =>
            /\ i = Len(messages)
            /\ pc = "done"
            /\ result = "failure"
            /\ \A k \in 1..Len(log) :
                log[k].phase = "data" =>
                    Pos(maintain_tables, log[k].stmt.table)
                        <= Pos(maintain_tables, messages[i].table)
            /\ \A j \in 1..(i - 1) :
                Copied(j) =>
                    get_table_count(tgt, messages[j].table) = messages[j].source_count

C15_Witness ==
    /\ Len(messages) = 2
    /\ Copied(1)
    /\ messages[1].source_count > 0
    /\ CopyFailed(2)

\* C16: a copy that ends with a target row count different from the source row count
\* is reported by a warning about that table.
C16_MismatchReported ==
    \A i \in 1..Len(messages) :
        (Copied(i) /\ messages[i].source_count # messages[i].target_count) =>
            \E j \in 1..Len(messages) :
                /\ messages[j].level = "warning"
                /\ messages[j].table = messages[i].table

TestFailed == tests.source = "failed" \/ tests.target = "failed"

\* C18: nothing happens before both connection tests have passed, and a test that
\* fails ends the run with failure: no backup, no plan, no statement, and the target
\* as it was.
C18_TestsFirst ==
    /\ (backup # "none" \/ plan # <<>> \/ log # <<>> \/ calls # <<>>) =>
            (tests.source = "ok" /\ tests.target = "ok")
    /\ TestFailed =>
        /\ pc = "done"
        /\ result = "failure"
        /\ backup = "none"
        /\ plan = <<>>
        /\ log = <<>>
        /\ tgt = tgt0

C18_Witness ==
    /\ tests.source = "ok"
    /\ tests.target = "failed"
    /\ result = "failure"
    /\ \E t \in Range(all_tables) : ~ table_exists(tgt, t)

\* C19: rows are cleared or inserted only in maintained tables and only once
\* replicate_structure has returned success; a table that is not maintained and was in
\* the target before the run has the rows it had.
C19_OnlyMaintainedRows ==
    /\ \A k \in 1..Len(log) :
        log[k].stmt.op \in {"TRUNCATE", "DELETE", "INSERT"} =>
            /\ log[k].stmt.table \in Range(maintain_tables)
            /\ struct_result = "success"
    /\ \A t \in RunTables \ Range(maintain_tables) :
        table_exists(tgt0, t) => get_table_count(tgt, t) = get_table_count(tgt0, t)

C19_Witness ==
    /\ result = "success"
    /\ \E k \in 1..Len(log) : log[k].stmt.op = "INSERT" /\ log[k].ok
    /\ \E t \in Range(all_tables) \ Range(maintain_tables) :
        /\ table_exists(tgt0, t)
        /\ tgt[t] # tgt0[t]
        /\ get_table_count(tgt0, t) > 0

\* --------------------------------------------------- planner properties
Planned == pc = "planned"

StepsOf(t) == {i \in 1..Len(plan) : plan[i].table = t}

ActionTypes(i) == {plan[i].actions[k].type : k \in 1..Len(plan[i].actions)}

ActionCount(i, type) ==
    Cardinality({k \in 1..Len(plan[i].actions) : plan[i].actions[k].type = type})

StructuralTypes == {"create_table", "alter_table", "update_foreign_keys", "update_indexes"}

\* C20: the plan has no step for a table the source lacks; a table the source has and
\* the target lacks gets one create_table and no other structural action; a table on
\* both sides gets alter_table, update_foreign_keys and update_indexes exactly for its
\* non-empty difference lists; no step is without actions.
C20_PlanShape ==
    Planned =>
        /\ \A i \in 1..Len(plan) : plan[i].actions # <<>>
        /\ \A t \in Range(all_tables) :
            LET a == analyze_table_differences(src, tgt, t)
            IN /\ Cardinality(StepsOf(t)) <= 1
               /\ ~ a.exists_in_source => StepsOf(t) = {}
               /\ (a.exists_in_source /\ ~ a.exists_in_target) =>
                    \E i \in StepsOf(t) :
                        /\ ActionTypes(i) \cap StructuralTypes = {"create_table"}
                        /\ ActionCount(i, "create_table") = 1
               /\ (a.exists_in_source /\ a.exists_in_target) =>
                    LET types == UNION {ActionTypes(i) : i \in StepsOf(t)}
                    IN /\ "create_table" \notin types
                       /\ "alter_table" \in types <=> a.structure_differences # <<>>
                       /\ "update_foreign_keys" \in types
                            <=> a.foreign_key_differences # {}
                       /\ "update_indexes" \in types <=> a.index_differences # <<>>
                       /\ \A i \in StepsOf(t) : \A type \in StructuralTypes :
                            ActionCount(i, type) <= 1

C20_Witness ==
    /\ Planned
    /\ \E t \in Range(all_tables) : ~ table_exists(src, t)
    /\ \E t \in Range(all_tables) :
        /\ table_exists(src, t)
        /\ table_exists(tgt, t)
        /\ StepsOf(t) # {}
        /\ \E i \in StepsOf(t) : "alter_table" \in ActionTypes(i)

\* ------------------------------------------------ connection properties
OpenCount(m) == Cardinality({i \in 1..Len(conns[m]) : conns[m][i] = "open"})

\* C17: a manager never has two connections open, and has none open once an operation
\* on it has returned or raised.
C17_ConnectionsReleased ==
    \A m \in Managers :
        /\ OpenCount(m) <= 1
        /\ operation.pc \in {"idle", "done"} => OpenCount(m) = 0

C17_Witness ==
    /\ operation.pc = "done"
    /\ operation.exc = "Error"
    /\ \E m \in Managers :
        /\ Len(conns[m]) >= 2
        /\ \E i \in 1..Len(conns[m]) : conns[m][i] = "closed"
        /\ \E i \in 1..Len(conns[m]) : conns[m][i] = "lost"

\* ------------------------------------------ planner and diff properties
\* C21: a listed table that the source has and that is maintained has a step whose last
\* action is replicate_data, whatever its structural state (absent from the target,
\* different, or the same); no step of a table that is not maintained has a
\* replicate_data action.
C21_DataPlanned ==
    Planned =>
        /\ \A t \in Range(all_tables) :
            (table_exists(src, t) /\ t \in Range(maintain_tables)) =>
                \E i \in StepsOf(t) :
                    plan[i].actions[Len(plan[i].actions)].type = "replicate_data"
        /\ \A i \in 1..Len(plan) :
            plan[i].table \notin Range(maintain_tables) =>
                "replicate_data" \notin ActionTypes(i)

C21_Witness ==
    /\ Planned
    /\ \E t \in Range(maintain_tables) :
        /\ table_exists(src, t)
        /\ ~ table_exists(tgt, t)
        /\ \E i \in StepsOf(t) : ActionTypes(i) = {"create_table", "replicate_data"}
    /\ \E t \in Range(all_tables) \ Range(maintain_tables) : StepsOf(t) # {}

\* the records of one type that a comparison holds about one column
RecordsAbout(a, type, column) ==
    {k \in 1..Len(a.structure_differences) :
        /\ a.structure_differences[k].type = type
        /\ a.structure_differences[k].column = column}

AttributeTypes == {"type_difference", "null_difference", "default_difference"}

RecordCount(a, column) ==
    Cardinality(UNION {RecordsAbout(a, type, column) : type \in AttributeTypes})

\* C22: for a column both sides have, the comparison holds one type_difference exactly
\* when the types differ, one null_difference exactly when the nullable flags differ and
\* one default_difference exactly when the defaults differ, each whatever the other two
\* are; a column equal in all three has no record.
C22_AttributesIndependent ==
    Analyzed =>
        \A t \in RunTables : \A d \in {"forward", "backward"} :
            LET a == analysis[<<t, d>>]
                source == IF d = "forward" THEN src[t].cols ELSE tgt[t].cols
                target == IF d = "forward" THEN tgt[t].cols ELSE src[t].cols
            IN (a.exists_in_source /\ a.exists_in_target) =>
                \A i \in 1..Len(source) : \A j \in 1..Len(target) :
                    source[i].Field = target[j].Field =>
                        LET c == source[i].Field
                            N(type) == Cardinality(RecordsAbout(a, type, c))
                        IN /\ N("type_difference")
                                = (IF source[i].Type # target[j].Type THEN 1 ELSE 0)
                           /\ N("null_difference")
                                = (IF source[i].Null # target[j].Null THEN 1 ELSE 0)
                           /\ N("default_difference")
                                = (IF source[i].Default # target[j].Default THEN 1 ELSE 0)

C22_Witness ==
    /\ Analyzed
    /\ \E t \in RunTables :
        LET a == analysis[<<t, "forward">>]
        IN /\ a.exists_in_source /\ a.exists_in_target
           /\ RecordCount(a, "a") = 3
           /\ RecordCount(a, "b") = 1
           /\ RecordCount(a, "id") = 0

\* ------------------------------------------- column and index properties
\* the statements of one phase sent for table t, in order
PhaseLog(phase, t) ==
    LET Sent(e) == e.phase = phase /\ e.stmt.table = t
    IN SelectSeq(log, Sent)

\* the call of one phase for table t has been made and every statement of it ran
PhaseDone(phase, t) ==
    /\ \E k \in 1..Len(calls) : calls[k] = Call(phase, t)
    /\ \A k \in 1..Len(PhaseLog(phase, t)) : PhaseLog(phase, t)[k].ok

\* where the claim puts column c: first, or after the nearest column before it in the
\* source order that the target has
ExpectedPosition(source_order, target_order, c) ==
    LET i == Pos(source_order, c)
        earlier == {j \in 1..(i - 1) : source_order[j] \in Range(target_order)}
        nearest == CHOOSE j \in earlier : \A k \in earlier : k <= j
    IN IF i = 1 \/ earlier = {} THEN <<"FIRST", "">>
       ELSE <<"AFTER", source_order[nearest]>>

\* C23: the position of an added column depends on the source column order, the target
\* column order and the column only: FIRST for the first source column, otherwise AFTER
\* the nearest earlier source column the target has, FIRST when it has none of them.
C23_PositionResolved ==
    \A k \in 1..Len(log) :
        log[k].stmt.op = "ADD COLUMN" =>
            LET t == log[k].stmt.table
            IN <<log[k].stmt.position, log[k].stmt.after>>
                = ExpectedPosition(FieldOrder(src[t].cols), FieldOrder(tgt0[t].cols),
                                   log[k].stmt.column)

C23_Witness ==
    \E t \in DOMAIN src :
        LET adds == PhaseLog("alter", t)
        IN /\ PhaseDone("alter", t)
           /\ \E k \in 1..Len(adds) :
                /\ adds[k].stmt.op = "ADD COLUMN"
                /\ adds[k].stmt.position = "FIRST"
                /\ adds[k].stmt.column # src[t].cols[1].Field
           /\ \E k \in 1..Len(adds) :
                /\ adds[k].stmt.op = "ADD COLUMN"
                /\ adds[k].stmt.position = "AFTER"
                /\ adds[k].stmt.after \in Fields(tgt0[t].cols)

\* the target table had the columns, foreign keys and indexes of the source table and
\* differed from it in the order of the columns only
OrderOnly(t) ==
    /\ table_exists(src, t) /\ table_exists(tgt0, t)
    /\ Range(tgt0[t].cols) = Range(src[t].cols)
    /\ Len(tgt0[t].cols) = Len(src[t].cols)
    /\ tgt0[t].cols # src[t].cols
    /\ {FkTriple(fk) : fk \in tgt0[t].fks} = {FkTriple(fk) : fk \in src[t].fks}
    /\ IndexNames(tgt0[t].idx) = IndexNames(src[t].idx)

\* C24: no statement is sent for a column order difference: every statement of the
\* alter phase adds a column the target lacked, drops one the source lacks or restates
\* the type of one whose type differs, and none moves a column; a table that differs in
\* column order only gets no structural statement, keeps its column sequence, and the
\* run succeeds (nothing failing for a reason of its own).
C24_OrderLeftAlone ==
    \A t \in DOMAIN src :
        /\ \A k \in 1..Len(PhaseLog("alter", t)) :
            LET q == PhaseLog("alter", t)[k].stmt
            IN \/ q.op = "ADD COLUMN" /\ q.column \notin Fields(tgt0[t].cols)
               \/ q.op = "DROP COLUMN" /\ q.column \notin Fields(src[t].cols)
               \/ /\ q.op = "MODIFY COLUMN"
                  /\ q.position = ""
                  /\ \E i \in 1..Len(src[t].cols), j \in 1..Len(tgt0[t].cols) :
                        /\ src[t].cols[i].Field = q.column
                        /\ tgt0[t].cols[j].Field = q.column
                        /\ src[t].cols[i].Type # tgt0[t].cols[j].Type
        /\ OrderOnly(t) =>
            /\ \A k \in 1..Len(log) :
                (log[k].stmt.table = t) => log[k].phase = "data"
            /\ tgt[t].cols = tgt0[t].cols
            /\ (pc = "done" /\ faults = 0) => result = "success"

C24_Witness ==
    /\ pc = "done"
    /\ result = "success"
    /\ \E t \in DOMAIN src :
        /\ OrderOnly(t)
        /\ \E k \in 1..Len(calls) : calls[k] = Call("alter", t)

\* the index names one side has and the other lacks, PRIMARY apart
OtherIndexes(rows, than) == (IndexNames(rows) \ IndexNames(than)) \ {"PRIMARY"}

IndexStatements(t, kinds, n) ==
    {k \in 1..Len(PhaseLog("index", t)) :
        /\ PhaseLog("index", t)[k].stmt.op \in kinds
        /\ PhaseLog("index", t)[k].stmt.index = n}

\* C25: no CREATE or DROP is ever sent for the index named PRIMARY; when the index
\* phase of a table has run, every other index the target lacked has one create
\* statement, unique exactly when the source index is unique, every other index the
\* source lacks has one drop statement, and nothing else was sent.
C25_IndexStatements ==
    /\ \A k \in 1..Len(log) :
        log[k].stmt.op \in {"CREATE INDEX", "CREATE UNIQUE INDEX", "DROP INDEX"} =>
            log[k].stmt.index # "PRIMARY"
    /\ \A t \in DOMAIN src :
        (table_exists(tgt0, t) /\ PhaseDone("index", t)) =>
            LET missing == OtherIndexes(src[t].idx, tgt0[t].idx)
                extra == OtherIndexes(tgt0[t].idx, src[t].idx)
            IN /\ \A n \in missing :
                    LET unique == \E i \in 1..Len(src[t].idx) :
                                    /\ src[t].idx[i].Key_name = n
                                    /\ src[t].idx[i].Non_unique = 0
                    IN /\ Cardinality(IndexStatements(t, {"CREATE INDEX",
                                                         "CREATE UNIQUE INDEX"}, n)) = 1
                       /\ Cardinality(IndexStatements(t, {"CREATE UNIQUE INDEX"}, n))
                            = (IF unique THEN 1 ELSE 0)
               /\ \A n \in extra : Cardinality(IndexStatements(t, {"DROP INDEX"}, n)) = 1
               /\ Len(PhaseLog("index", t)) = Cardinality(missing) + Cardinality(extra)

C25_Witness ==
    \E t \in DOMAIN src :
        /\ table_exists(tgt0, t)
        /\ PhaseDone("index", t)
        /\ "PRIMARY" \in IndexNames(src[t].idx) \ IndexNames(tgt0[t].idx)
        /\ "idx_a" \in IndexNames(src[t].idx) \ IndexNames(tgt0[t].idx)
        /\ "uq_ab" \in IndexNames(src[t].idx) \ IndexNames(tgt0[t].idx)
        /\ "idx_b" \in IndexNames(tgt0[t].idx)
        /\ Len(PhaseLog("index", t)) = 3

\* the member columns of the index n, in index order
IndexColumns(rows, n) ==
    LET members == IndexGroup(rows, n)
    IN [i \in 1..Len(members) |-> members[i].Column_name]

\* C26: once the index phase of a table has run, an index the target lacked (PRIMARY
\* apart) has in the target the member columns it has in the source, in the same order.
C26_FullMemberList ==
    \A t \in DOMAIN src :
        (table_exists(tgt0, t) /\ PhaseDone("index", t)) =>
            \A n \in OtherIndexes(src[t].idx, tgt0[t].idx) :
                IndexColumns(tgt[t].idx, n) = IndexColumns(src[t].idx, n)

\* the columns of `cols` that `order` has come in the order `order` has them in
InOrderOf(cols, order) ==
    \A i, j \in 1..Len(cols) :
        (i < j /\ cols[i] \in Range(order) /\ cols[j] \in Range(order)) =>
            Pos(order, cols[i]) < Pos(order, cols[j])

AddedColumns(t) ==
    {k \in 1..Len(PhaseLog("alter", t)) : PhaseLog("alter", t)[k].stmt.op = "ADD COLUMN"}

\* C28: when the alter phase has added two or more columns to a table whose columns
\* were in source order, the columns of the target that the source has are in source
\* order afterwards.
C28_AddedInSourceOrder ==
    \A t \in DOMAIN src :
        (/\ table_exists(tgt0, t)
         /\ PhaseDone("alter", t)
         /\ Cardinality(AddedColumns(t)) >= 2
         /\ InOrderOf(FieldOrder(tgt0[t].cols), FieldOrder(src[t].cols))) =>
            InOrderOf(FieldOrder(tgt[t].cols), FieldOrder(src[t].cols))

\* --------------------------------------------------- clearing properties
\* one of the two with blocks of truncate_table ran to its end for table t
AttemptOk(t, op) ==
    LET sent == PhaseLog("data", t)
    IN \E k \in 1..(Len(sent) - 1) :
        /\ sent[k].stmt.op = op /\ sent[k].ok
        /\ sent[k + 1].stmt.op = "SET FOREIGN_KEY_CHECKS = 1" /\ sent[k + 1].ok

\* replicate_data gave up at line 106: the table could not be cleared
ClearFailed(i) == CopyFailed(i) /\ DataInserts(messages[i].table) = <<>>

RECURSIVE InsertedRows(_)
InsertedRows(ins) ==
    IF ins = <<>> THEN 0
    ELSE (IF Head(ins).ok THEN Head(ins).stmt.count ELSE 0) + InsertedRows(Tail(ins))

\* C27: TRUNCATE is the first clearing statement and DELETE is sent only when the
\* TRUNCATE attempt failed; the clear fails exactly when both attempts failed, and
\* otherwise leaves the table with no rows (it holds the inserted rows and no others);
\* TRUNCATE and DELETE run with FOREIGN_KEY_CHECKS = 0 and every INSERT with
\* FOREIGN_KEY_CHECKS = 1.
C27_ClearThenInsert ==
    /\ \A t \in DOMAIN src :
        LET sent == PhaseLog("data", t)
        IN \A k \in 1..Len(sent) :
            /\ sent[k].stmt.op \in {"DELETE", "INSERT"} =>
                    \E j \in 1..(k - 1) : sent[j].stmt.op = "TRUNCATE"
            /\ sent[k].stmt.op = "DELETE" => ~ AttemptOk(t, "TRUNCATE")
            /\ sent[k].stmt.op \in {"TRUNCATE", "DELETE"} => sent[k].stmt.fk_checks = 0
            /\ sent[k].stmt.op = "INSERT" => sent[k].stmt.fk_checks = 1
    /\ \A i \in 1..Len(messages) :
        LET t == messages[i].table
        IN /\ ClearFailed(i) <=> (~ AttemptOk(t, "TRUNCATE") /\ ~ AttemptOk(t, "DELETE"))
           /\ ~ ClearFailed(i) => get_table_count(tgt, t) = InsertedRows(DataInserts(t))

C27_Witness ==
    \E i \in 1..Len(messages) :
        LET t == messages[i].table
            sent == PhaseLog("data", t)
        IN /\ Copied(i)
           /\ \E k \in 1..Len(sent) : sent[k].stmt.op = "TRUNCATE" /\ ~ sent[k].ok
           /\ AttemptOk(t, "DELETE")
           /\ get_table_count(tgt0, t) > 0
           /\ get_table_count(tgt, t) = 2 * batch_size + 500

\* C29: a table that was cleared and whose source rows could not be read (the source
\* has rows and none were read) is reported as failed, and the run does not succeed.
C29_ReadFailureFails ==
    \A i \in 1..Len(messages) :
        LET t == messages[i].table
        IN (/\ AttemptOk(t, "TRUNCATE") \/ AttemptOk(t, "DELETE")
            /\ get_table_count(src, t) > 0
            /\ messages[i].source_count = 0) =>
                /\ CopyFailed(i)
                /\ result # "success"

\* ------------------------------------------------------ source properties
\* C30: no step of a run writes to the source database: its tables, columns, foreign
\* keys, indexes and rows are after every step what they were before it, and every
\* change a statement makes is made in the target.
C30_SourceUntouched == [][src' = src]_vars

C30_Witness ==
    /\ pc = "done"
    /\ result = "success"
    /\ \E t \in DOMAIN src : ~ table_exists(tgt0, t) /\ table_exists(tgt, t)
    /\ \E k \in 1..Len(log) : log[k].stmt.op = "ADD COLUMN" /\ log[k].ok
    /\ \E k \in 1..Len(log) : log[k].stmt.op = "INSERT" /\ log[k].ok
    /\ \E k \in 1..Len(log) : log[k].stmt.op = "TRUNCATE" /\ log[k].ok

====
